---- MODULE Spec2Model ----
(***************************************************************************)
(* Model of the rule parser of backend/parser.py: the narration grammar,   *)
(* the possession tracker (ParserState) and the event builder.             *)
(*                                                                         *)
(* Text is a sequence of tokens.  A token is a word ("Blue", "seven",      *)
(* "two-touch"), a punctuation mark (",", ".", ":", ";", "!", "?") or WS, a *)
(* run of surplus whitespace.  Single blanks between tokens are implicit.  *)
(* A sentence terminator is followed by whitespace whenever another word   *)
(* follows it.  Python's None is the string None; an optional record is a  *)
(* sequence of length 0 or 1; a dict is a record whose DOMAIN is its keys.  *)
(***************************************************************************)
EXTENDS Integers, Sequences, FiniteSets, TLC

VARIABLES
    pc,         \* position in parse_transcript_segments: "running" | "returned"
                \* | "raised" (an exception left the function)
    args,       \* keyword arguments of the current call
    segments,   \* raw segments the for loop of line 115 has taken so far
    segment,    \* Segment of the current iteration (<<>> before the first)
    pending,    \* fragments of the current segment not yet tried
    consumed,   \* history: fragments tried so far in this call, each with its
                \* segment, the ParserState before it and the event it gave
    state,      \* ParserState
    events,     \* events list of the current call
    calls,      \* history: arguments and result of every call that returned
    peer,       \* a second call of parse_transcript_segments running at the
                \* same time, with locals of its own (<<>> when there is none)
    llm,        \* a call of llm_parser.parse_transcript_segments: its
                \* arguments, the environment, what the structurer answers,
                \* and its locals (<<>> when there is none)
    scan        \* a call of json_utils._extract_top_level_object: its text
                \* and its locals (<<>> when there is none)

\* what lies outside the one call that pc .. events describe
others == <<peer, llm, scan>>

vars == <<pc, args, segments, segment, pending, consumed, state, events, calls, others>>

None == "None"
WS == " "

(***************************************************************************)
(* Token-sequence helpers.                                                 *)
(***************************************************************************)
IsPrefix(p, s) == Len(p) <= Len(s) /\ SubSeq(s, 1, Len(p)) = p
Drop(s, n) == SubSeq(s, n + 1, Len(s))
Last(s) == s[Len(s)]
Front(s) == SubSeq(s, 1, Len(s) - 1)

RECURSIVE LStrip(_, _)
LStrip(s, chars) ==
    IF s # <<>> /\ Head(s) \in chars THEN LStrip(Tail(s), chars) ELSE s

RECURSIVE RStrip(_, _)
RStrip(s, chars) ==
    IF s # <<>> /\ Last(s) \in chars THEN RStrip(Front(s), chars) ELSE s

Strip(s, chars) == RStrip(LStrip(s, chars), chars)

\* s with every occurrence of pat replaced, left to right; s itself when
\* the first token of pat does not occur in it
RECURSIVE ReplaceAll(_, _, _)
ReplaceAll(s, pat, rep) ==
    IF \A i \in 1..Len(s) : s[i] # pat[1] THEN s
    ELSE IF IsPrefix(pat, s) THEN rep \o ReplaceAll(Drop(s, Len(pat)), pat, rep)
    ELSE <<Head(s)>> \o ReplaceAll(Tail(s), pat, rep)

\* index of the first occurrence of tok in s, or -1 (str.find)
RECURSIVE FindFrom(_, _, _)
FindFrom(s, tok, i) ==
    IF i > Len(s) THEN -1
    ELSE IF s[i] = tok THEN i
    ELSE FindFrom(s, tok, i + 1)

Find(s, tok) == FindFrom(s, tok, 1)

\* "pat in s" for a phrase
Contains(s, pat) == \E i \in 0..(Len(s) - Len(pat)) : IsPrefix(pat, Drop(s, i))

(***************************************************************************)
(* Letter case.  The words of the vocabulary that hold a capital letter,   *)
(* with their lower-case forms; every other token is already lower case.   *)
(***************************************************************************)
LowerTable ==
    [Blue |-> "blue", White |-> "white", After |-> "after", Mark |-> "mark",
     Forces |-> "forces", No |-> "no",
     First |-> "first", Second |-> "second", Seven |-> "seven",
     Intercepted |-> "intercepted", Completed |-> "completed",
     Wins |-> "wins", Through |-> "through", Great |-> "great",
     BLUE |-> "blue", Smith |-> "smith"]

Lower(tok) == IF tok \in DOMAIN LowerTable THEN LowerTable[tok] ELSE tok

LowerText(s) == [i \in 1..Len(s) |-> Lower(s[i])]

\* str.capitalize() of a lower-case team word
Capitalize(tok) ==
    IF tok = "blue" THEN "Blue" ELSE IF tok = "white" THEN "White" ELSE tok

\* an en dash inside a word becomes a hyphen; "~" stands for the en dash
DashTable ==
    ("two~touch" :> "two-touch") @@ ("one~touch" :> "one-touch")

ReplaceDash(tok) == IF tok \in DOMAIN DashTable THEN DashTable[tok] ELSE tok

Separators == {",", ":", ";"}
Terminators == {".", "!", "?"}

\* tokens that do not match [A-Za-z0-9]+
NonAlnum ==
    Separators \cup Terminators \cup
    {WS, "one-touch", "two-touch", "three-plus-touch", "three-plus", "-",
     "two~touch", "one~touch"}

IsAlnum(tok) == tok \notin NonAlnum

(***************************************************************************)
(* _normalize_phrase                                                       *)
(***************************************************************************)
\* a normalisation that knows the spellings of one and two touches only
_normalize_phrase_two_spellings(text) ==
    ReplaceAll(
        ReplaceAll(
            ReplaceAll(
                Strip(SelectSeq([i \in 1..Len(text) |-> ReplaceDash(Lower(text[i]))],
                                LAMBDA t : t \notin Separators \cup {WS}),
                      Terminators),
                <<"one", "touch">>, <<"one-touch">>),
            <<"two", "touch">>, <<"two-touch">>),
        <<"carry", "pass">>, <<"carry", "then", "pass">>)

_normalize_phrase(text) ==
    LET lowered == LowerText(text)
        dashed == [i \in 1..Len(lowered) |-> ReplaceDash(lowered[i])]
        \* [,:;] -> " " and \s+ -> " ": the marks and surplus blanks vanish
        spaced == SelectSeq(dashed, LAMBDA t : t \notin Separators \cup {WS})
        stripped == Strip(spaced, Terminators)
        one == ReplaceAll(stripped, <<"one", "touch">>, <<"one-touch">>)
        two == ReplaceAll(one, <<"two", "touch">>, <<"two-touch">>)
        three == ReplaceAll(two, <<"three", "plus", "touch">>, <<"three-plus-touch">>)
        carry == ReplaceAll(three, <<"carry", "pass">>, <<"carry", "then", "pass">>)
    IN carry

(***************************************************************************)
(* _split_segment_text                                                     *)
(***************************************************************************)
connectors ==
    << <<"through", "ball">>, <<"completed", "to">>, <<"intercepted">>,
       <<"wins", "it", "back">>, <<"safe", "recycle">>, <<"line", "breaking">>,
       <<"switch", "of", "play">>, <<"service", "into", "box">>,
       <<"token", "pressure">>, <<"immediate", "press">>, <<"track", "runner">>,
       <<"no", "effect">>, <<"negative", "effect">>, <<"on", "target">>,
       <<"off", "target">>, <<"blocked">>, <<"out", "for">> >>

StartsWithAny(s, phrases) == \E i \in 1..Len(phrases) : IsPrefix(phrases[i], s)

\* re.split(r"(?<=[.!?])\s+", stripped): cut after a terminator that is
\* followed by whitespace, which is consumed
RECURSIVE SplitSentences(_, _)
SplitSentences(s, cur) ==
    IF s = <<>> THEN <<cur>>
    ELSE IF Head(s) \in Terminators /\ Len(s) > 1 /\ s[2] \notin Terminators
         THEN <<Append(cur, Head(s))>> \o SplitSentences(LStrip(Tail(s), {WS}), <<>>)
    ELSE SplitSentences(Tail(s), Append(cur, Head(s)))

RECURSIVE JoinFragments(_, _)
JoinFragments(sentences, fragments) ==
    IF sentences = <<>> THEN fragments
    ELSE LET cleaned == Strip(Head(sentences), {WS})
             lower == LowerText(cleaned)
         IN IF cleaned = <<>> THEN JoinFragments(Tail(sentences), fragments)
            ELSE IF fragments # <<>> /\ StartsWithAny(lower, connectors)
                 THEN JoinFragments(Tail(sentences),
                        Append(Front(fragments),
                               RStrip(Last(fragments), {".", WS}) \o cleaned))
            ELSE JoinFragments(Tail(sentences), Append(fragments, cleaned))

_split_segment_text(text) ==
    IF text = <<>> THEN <<>>
    ELSE LET stripped == Strip(text, {WS})
         IN IF stripped = <<>> THEN <<>>
            ELSE JoinFragments(SplitSentences(stripped, <<>>), <<>>)

(***************************************************************************)
(* The three fragment patterns.  A match is <<groups>>, no match is <<>>.  *)
(* The patterns are anchored at both ends and are applied to normalized    *)
(* text.                                                                   *)
(***************************************************************************)
TeamWords == {"blue", "white"}
QualityWords == {"high", "medium", "low"}
ResultPhrases ==
    {<<"controlled">>, <<"rebound", "free", "space">>, <<"rebound", "to", "opponent">>}
TouchTokens ==
    ("one-touch" :> "one") @@ ("two-touch" :> "two") @@ ("three-plus-touch" :> "three-plus")
ActionPhrases ==
    << <<"pass">>, <<"forward", "ball">>, <<"service">>, <<"clearance">>, <<"shot">> >>
BehaviourPhrases ==
    << <<"immediate", "press">>, <<"track", "runner">>, <<"token", "pressure">>,
       <<"stops", "and", "watches">>, <<"gives", "up">> >>

\* ",?" between two groups: one comma is skipped when something follows it
SkipComma(s) == IF Len(s) > 1 /\ Head(s) = "," THEN Tail(s) ELSE s
\* "\.?$": one final period is allowed
DropFinalPeriod(s) == IF s # <<>> /\ Last(s) = "." THEN Front(s) ELSE s

\* the first alternative of phrases that s starts with, as <<phrase>>, or <<>>
RECURSIVE FirstAlternative(_, _, _)
FirstAlternative(s, phrases, i) ==
    IF i > Len(phrases) THEN <<>>
    ELSE IF IsPrefix(phrases[i], s) THEN <<phrases[i]>>
    ELSE FirstAlternative(s, phrases, i + 1)

FIRST_TOUCH_RE(text) ==
    IF /\ Len(text) >= 6
       /\ text[1] \in TeamWords
       /\ IsAlnum(text[2])
       /\ text[3] = "first" /\ text[4] = "touch"
       /\ text[5] \in QualityWords
       /\ DropFinalPeriod(SkipComma(Drop(text, 5))) \in ResultPhrases
    THEN << [team |-> text[1], player |-> text[2], quality |-> text[5],
             result |-> DropFinalPeriod(SkipComma(Drop(text, 5)))] >>
    ELSE <<>>
\* a pattern whose tail may be empty (".*" for ".+")
ON_BALL_RE_optional_tail(text) ==
    IF /\ Len(text) >= 4
       /\ text[1] \in TeamWords
       /\ IsAlnum(text[2])
       /\ text[3] \in DOMAIN TouchTokens
       /\ FirstAlternative(Drop(text, 3), ActionPhrases, 1) # <<>>
    THEN << [team |-> text[1], player |-> text[2],
             touch_count |-> TouchTokens[text[3]],
             action |-> FirstAlternative(Drop(text, 3), ActionPhrases, 1)[1],
             tail |-> SkipComma(Drop(text,
                         3 + Len(FirstAlternative(Drop(text, 3), ActionPhrases, 1)[1])))] >>
    ELSE <<>>

ON_BALL_RE(text) ==
    IF /\ Len(text) >= 5
       /\ text[1] \in TeamWords
       /\ IsAlnum(text[2])
       /\ text[3] \in DOMAIN TouchTokens
       /\ FirstAlternative(Drop(text, 3), ActionPhrases, 1) # <<>>
       /\ Drop(text, 3 + Len(FirstAlternative(Drop(text, 3), ActionPhrases, 1)[1])) # <<>>
    THEN LET action == FirstAlternative(Drop(text, 3), ActionPhrases, 1)[1]
         IN << [team |-> text[1], player |-> text[2],
                touch_count |-> TouchTokens[text[3]], action |-> action,
                tail |-> SkipComma(Drop(text, 3 + Len(action)))] >>
    ELSE <<>>

PostLossPattern(text) ==
    IF /\ IsPrefix(<<"after", "losing", "it">>, text)
       /\ LET rest == SkipComma(Drop(text, 3))
          IN /\ Len(rest) >= 4
             /\ rest[1] \in TeamWords
             /\ IsAlnum(rest[2])
             /\ FirstAlternative(Drop(rest, 2), BehaviourPhrases, 1) # <<>>
             /\ Drop(rest, 2 + Len(FirstAlternative(Drop(rest, 2), BehaviourPhrases, 1)[1])) # <<>>
    THEN LET rest == SkipComma(Drop(text, 3))
             behaviour == FirstAlternative(Drop(rest, 2), BehaviourPhrases, 1)[1]
         IN << [team |-> rest[1], player |-> rest[2], behaviour |-> behaviour,
                outcome_clause |-> SkipComma(Drop(rest, 2 + Len(behaviour)))] >>
    ELSE <<>>

\* the pattern found anywhere in the text (re.search, or "^" left out)
RECURSIVE POST_LOSS_RE_unanchored(_)
POST_LOSS_RE_unanchored(text) ==
    IF text = <<>> THEN <<>>
    ELSE IF PostLossPattern(text) # <<>> THEN PostLossPattern(text)
    ELSE POST_LOSS_RE_unanchored(Tail(text))

\* POST_LOSS_RE.match(text): the pattern at the start of the text
POST_LOSS_RE(text) == PostLossPattern(text)

\* ^completed(?:\s+to\s+(?P<target>.+))?\.?$
COMPLETED_RE(clause) ==
    \/ DropFinalPeriod(clause) = <<"completed">>
    \/ IsPrefix(<<"completed", "to">>, clause) /\ Len(clause) >= 3

\* ^(?:to\s+opponent|intercepted(?:\s+by\s+opponent)?)\.?$
TO_OPPONENT_RE(clause) ==
    DropFinalPeriod(clause) \in
        {<<"to", "opponent">>, <<"intercepted">>, <<"intercepted", "by", "opponent">>}

\* an OUT_FOR_RE that forgets which restart was narrated
OUT_FOR_RE_forgetting_restart(clause) ==
    IF IsPrefix(<<"out", "for">>, DropFinalPeriod(clause))
       /\ Drop(DropFinalPeriod(clause), 2) \in {<<"throw">>, <<"goal", "kick">>, <<"corner">>}
    THEN << <<"throw">> >>
    ELSE <<>>

\* ^out\s+for\s+(?P<restart>throw|goal kick|corner)\.?$ ; <<restart>> or <<>>
OUT_FOR_RE(clause) ==
    LET body == DropFinalPeriod(clause)
    IN IF IsPrefix(<<"out", "for">>, body)
          /\ Drop(body, 2) \in {<<"throw">>, <<"goal", "kick">>, <<"corner">>}
       THEN <<Drop(body, 2)>>
       ELSE <<>>

\* ^blocked\.?$
BLOCKED_RE(clause) == DropFinalPeriod(clause) = <<"blocked">>
\* a map that stops at nineteen
SPOKEN_NUMBER_MAP_to_nineteen ==
    [zero |-> "0", one |-> "1", two |-> "2", three |-> "3", four |-> "4",
     five |-> "5", six |-> "6", seven |-> "7", eight |-> "8", nine |-> "9",
     ten |-> "10", eleven |-> "11", twelve |-> "12", thirteen |-> "13",
     fourteen |-> "14", fifteen |-> "15", sixteen |-> "16", seventeen |-> "17",
     eighteen |-> "18", nineteen |-> "19"]

SPOKEN_NUMBER_MAP ==
    [zero |-> "0", one |-> "1", two |-> "2", three |-> "3", four |-> "4",
     five |-> "5", six |-> "6", seven |-> "7", eight |-> "8", nine |-> "9",
     ten |-> "10", eleven |-> "11", twelve |-> "12", thirteen |-> "13",
     fourteen |-> "14", fifteen |-> "15", sixteen |-> "16", seventeen |-> "17",
     eighteen |-> "18", nineteen |-> "19", twenty |-> "20"]

MARKER_PREFIXES == << <<"first", "half">>, <<"second", "half">>, <<"mark">> >>

\* words that start with the letters "mark"
MarkWords == {"mark", "marks", "marking", "marked"}

\* normalized.startswith(prefix) for some marker prefix
StartsWithMarker(normalized) ==
    \/ StartsWithAny(normalized, MARKER_PREFIXES)
    \/ normalized # <<>> /\ Head(normalized) \in MarkWords

(***************************************************************************)
(* ParserState and its methods.  A method returns the new state and, when  *)
(* it has one, its return value.                                           *)
(***************************************************************************)
ParserState(match_id, period, offset_seconds) ==
    [match_id |-> match_id, period |-> period, offset_seconds |-> offset_seconds,
     event_counter |-> 0, last_loss_event_id |-> None,
     current_possession_id |-> 0, possession_owner_team |-> None,
     possession_open |-> FALSE]

\* the id is formatted before the counter is advanced
next_event_id_stale(st) ==
    [state |-> [st EXCEPT !.event_counter = @ + 1],
     value |-> st.match_id \o "-" \o ToString(st.event_counter)]

next_event_id(st) ==
    LET counter == st.event_counter + 1
    IN [state |-> [st EXCEPT !.event_counter = counter],
        value |-> st.match_id \o "-" \o ToString(counter)]

\* every first touch opens a possession of its own
start_or_continue_possession_always_new(st, team) ==
    [state |-> [st EXCEPT !.current_possession_id = @ + 1,
                          !.possession_owner_team = team,
                          !.possession_open = TRUE],
     value |-> ToString(st.current_possession_id + 1)]

start_or_continue_possession(st, team) ==
    LET st1 == IF ~st.possession_open \/ st.possession_owner_team # team
               THEN [st EXCEPT !.current_possession_id = @ + 1,
                               !.possession_owner_team = team]
               ELSE st
        st2 == [st1 EXCEPT !.possession_open = TRUE]
    IN [state |-> st2, value |-> ToString(st2.current_possession_id)]

\* closing a possession also rewinds the possession counter
end_possession_resetting(st) ==
    [st EXCEPT !.possession_open = FALSE, !.possession_owner_team = None,
               !.current_possession_id = 0]
\* closing a possession leaves the name of its owner behind
end_possession_keeping_owner(st) ==
    [st EXCEPT !.possession_open = FALSE]

end_possession(st) ==
    [st EXCEPT !.possession_open = FALSE, !.possession_owner_team = None]

(***************************************************************************)
(* Segment and the event builder.                                          *)
(***************************************************************************)
\* dict.get(key, default)
Get(data, key, default) == IF key \in DOMAIN data THEN data[key] ELSE default

\* The values of a segment dict as they arrive: a number, a string (its
\* tokens) or null.
Number(n) == [type |-> "number", number |-> n]
String(tokens) == [type |-> "str", tokens |-> tokens]
Null == [type |-> "null"]

\* the strings of the vocabulary that float() accepts, with their values
NumericStrings == (<<"12">> :> 12)

\* float(value): <<number>>, or <<>> when it raises TypeError or ValueError
Float(value) ==
    IF value.type = "number" THEN <<value.number>>
    ELSE IF value.type = "str" /\ value.tokens \in DOMAIN NumericStrings
    THEN <<NumericStrings[value.tokens]>>
    ELSE <<>>

\* str(value)
Str(value) ==
    IF value.type = "str" THEN value.tokens
    ELSE IF value.type = "null" THEN <<None>>
    ELSE <<ToString(value.number)>>

\* _to_segment(data) raises: float() rejects start or end
ToSegmentRaises(data) ==
    \/ Float(Get(data, "start", Number(0))) = <<>>
    \/ Float(Get(data, "end", Number(0))) = <<>>

\* the Segment, when _to_segment does not raise
_to_segment(data) ==
    [start |-> Float(Get(data, "start", Number(0)))[1],
     end |-> Float(Get(data, "end", Number(0)))[1],
     text |-> Str(Get(data, "text", String(<<>>)))]

\* a lookup with no default: a token that is not a spoken number gives None
_normalize_player_spoken_only(token) ==
    IF Lower(token) \in DOMAIN SPOKEN_NUMBER_MAP THEN SPOKEN_NUMBER_MAP[Lower(token)]
    ELSE None

_normalize_player(token) ==
    LET lookup == Lower(token)
    IN IF lookup \in DOMAIN SPOKEN_NUMBER_MAP THEN SPOKEN_NUMBER_MAP[lookup] ELSE token

\* a base event timed by the segment alone
_build_base_event_without_offset(st, seg, team, player_number, event_type, source_phrase) ==
    [state |-> next_event_id(st).state,
     event |->
       [event_id |-> next_event_id(st).value,
        match_id |-> st.match_id,
        period |-> st.period,
        video_time_s |-> seg.start,
        team |-> team,
        player_id |-> None,
        player_name |-> None,
        player_jersey_number |-> player_number,
        player_role |-> None,
        event_type |-> event_type,
        possession_id |-> None,
        sequence_id |-> None,
        source_phrase |-> source_phrase,
        zone_start |-> None,
        zone_end |-> None,
        tags |-> None,
        comment |-> None]]

_build_base_event(st, seg, team, player_number, event_type, source_phrase) ==
    LET id == next_event_id(st)
    IN [state |-> id.state,
        event |->
          [event_id |-> id.value,
           match_id |-> st.match_id,
           period |-> st.period,
           video_time_s |-> seg.start + st.offset_seconds,
           team |-> team,
           player_id |-> None,
           player_name |-> None,
           player_jersey_number |-> player_number,
           player_role |-> None,
           event_type |-> event_type,
           possession_id |-> None,
           sequence_id |-> None,
           source_phrase |-> source_phrase,
           zone_start |-> None,
           zone_end |-> None,
           tags |-> None,
           comment |-> None]]

\* dict.update: the keys of more replace or extend those of event
Update(event, more) == more @@ event

(***************************************************************************)
(* The value maps of the grammar.                                          *)
(***************************************************************************)
_map_touch_count(value) ==
    IF value = "one" THEN "one_touch"
    ELSE IF value = "two" THEN "two_touch"
    ELSE "three_plus"

_map_action_type(value) ==
    IF value = <<"pass">> THEN "pass"
    ELSE IF value = <<"forward", "ball">> THEN "forward_ball"
    ELSE IF value = <<"service">> THEN "service"
    ELSE IF value = <<"clearance">> THEN "clearance"
    ELSE "shot"

\* dict order is insertion order
PASS_INTENT_MAP ==
    << [phrase |-> <<"safe", "recycle">>, mapped |-> "safe_recycle"],
       [phrase |-> <<"line", "breaking">>, mapped |-> "line_breaking"],
       [phrase |-> <<"switch", "of", "play">>, mapped |-> "switch_of_play"],
       [phrase |-> <<"through", "ball">>, mapped |-> "through_ball"],
       [phrase |-> <<"service", "into", "box">>, mapped |-> "service_into_box"] >>

\* the first entry of PASS_INTENT_MAP whose phrase value starts with, or <<>>
RECURSIVE IntentEntry(_, _)
IntentEntry(value, i) ==
    IF i > Len(PASS_INTENT_MAP) THEN <<>>
    ELSE IF IsPrefix(PASS_INTENT_MAP[i].phrase, value) THEN <<PASS_INTENT_MAP[i]>>
    ELSE IntentEntry(value, i + 1)

_match_intent_phrase(value) ==
    IF IntentEntry(value, 1) # <<>> THEN IntentEntry(value, 1)[1].mapped ELSE None

_extract_intent_and_outcome(tail) ==
    LET cleaned == Strip(tail, {WS})
        comma_index == Find(cleaned, ",")
    IN IF comma_index = -1
       THEN IF IntentEntry(cleaned, 1) # <<>>
            THEN [pass_intent |-> IntentEntry(cleaned, 1)[1].mapped,
                  outcome_clause |->
                    Strip(Drop(cleaned, Len(IntentEntry(cleaned, 1)[1].phrase)), {WS, ","})]
            ELSE [pass_intent |-> None, outcome_clause |-> cleaned]
       ELSE LET potential_intent == LowerText(Strip(SubSeq(cleaned, 1, comma_index - 1), {WS}))
                mapped_intent == _match_intent_phrase(potential_intent)
            IN IF mapped_intent # None
               THEN [pass_intent |-> mapped_intent,
                     outcome_clause |-> Strip(Drop(cleaned, comma_index), {WS})]
               ELSE [pass_intent |-> None, outcome_clause |-> cleaned]

Outcome(team, detail, next) ==
    [action_outcome_team |-> team, action_outcome_detail |-> detail,
     next_possession_team |-> next]

_parse_on_ball_outcome(clause0, action_type) ==
    LET clause == Strip(clause0, {WS})
        clause_lower == LowerText(clause)
        body == DropFinalPeriod(clause_lower)
    IN IF Len(body) >= 3 /\ Head(body) = "to" /\ Last(body) = "completed"
       THEN Outcome("same_team", "completed", "same_team")
       ELSE IF COMPLETED_RE(clause_lower)
       THEN Outcome("same_team", "completed", "same_team")
       ELSE IF TO_OPPONENT_RE(clause_lower)
       THEN Outcome("opponent", "intercepted", "opponent")
       ELSE IF OUT_FOR_RE(clause_lower) # <<>>
       THEN Outcome("out_of_play",
                    IF action_type = "clearance" THEN "clearance_out" ELSE "overhit",
                    IF OUT_FOR_RE(clause_lower)[1] \in {<<"goal", "kick">>, <<"corner">>}
                    THEN "opponent" ELSE "same_team")
       ELSE IF BLOCKED_RE(clause_lower)
       THEN Outcome("loose",
                    IF action_type = "shot" THEN "shot_blocked" ELSE "blocked",
                    "contested")
       ELSE IF Contains(clause_lower, <<"on", "target">>)
       THEN Outcome("opponent", "shot_on_target", "opponent")
       ELSE IF Contains(clause_lower, <<"off", "target">>)
       THEN Outcome("out_of_play", "shot_off_target", "opponent")
       ELSE Outcome("loose", "blocked", "contested")

_map_post_loss_behaviour(value) ==
    IF value = <<"immediate", "press">> THEN "immediate_press"
    ELSE IF value = <<"track", "runner">> THEN "track_runner"
    ELSE IF value = <<"token", "pressure">> THEN "token_pressure"
    ELSE "no_reaction"

\* a classification that wants the clause to be the phrase and nothing more
_map_post_loss_outcome_whole_clause(value) ==
    IF value = <<"wins", "it", "back", "herself">> THEN "won_back_possession_self"
    ELSE IF value = <<"wins", "it", "back", "for", "the", "team">>
    THEN "won_back_possession_team"
    ELSE IF value = <<"forces", "error">> THEN "forced_error_only"
    ELSE IF value = <<"no", "effect">> THEN "no_effect"
    ELSE IF value = <<"negative", "effect">> THEN "negative_effect"
    ELSE "no_effect"

_map_post_loss_outcome(value) ==
    IF IsPrefix(<<"wins", "it", "back", "herself">>, value) THEN "won_back_possession_self"
    ELSE IF IsPrefix(<<"wins", "it", "back", "for", "the", "team">>, value)
    THEN "won_back_possession_team"
    ELSE IF IsPrefix(<<"forces", "error">>, value) THEN "forced_error_only"
    ELSE IF IsPrefix(<<"no", "effect">>, value) THEN "no_effect"
    ELSE IF IsPrefix(<<"negative", "effect">>, value) THEN "negative_effect"
    ELSE "no_effect"

(***************************************************************************)
(* The three handlers.  Each returns the new ParserState and the event as  *)
(* <<event>>, or the unchanged state and <<>> when its pattern fails.      *)
(***************************************************************************)
\* every touch that is not kept is remembered as a loss
RecordFirstTouch_loss_on_any_rebound(st, event_id, maintained_possession, possession_after) ==
    IF ~maintained_possession
    THEN end_possession([st EXCEPT !.last_loss_event_id = event_id])
    ELSE st

\* lines 196-199: what a first touch does to the tracker once its event is built
RecordFirstTouch(st, event_id, maintained_possession, possession_after) ==
    IF ~maintained_possession
    THEN IF possession_after = "opponent"
         THEN end_possession([st EXCEPT !.last_loss_event_id = event_id])
         ELSE end_possession(st)
    ELSE st

\* the owner of the open possession is not compared with the acting team
LinkPossession_ignoring_owner(st, event, team) ==
    IF st.possession_open
    THEN [event EXCEPT !.possession_id = ToString(st.current_possession_id),
                       !.sequence_id = ToString(st.current_possession_id)]
    ELSE event
\* the possession is written to possession_id alone
LinkPossession_without_sequence(st, event, team) ==
    IF st.possession_open /\ st.possession_owner_team = team
    THEN [event EXCEPT !.possession_id = ToString(st.current_possession_id)]
    ELSE event

\* lines 233-235: an on-ball action inside the acting team's open possession
LinkPossession(st, event, team) ==
    IF st.possession_open /\ st.possession_owner_team = team
    THEN [event EXCEPT !.possession_id = ToString(st.current_possession_id),
                       !.sequence_id = ToString(st.current_possession_id)]
    ELSE event

\* a ball played out of play is not remembered as a loss
RecordOnBall_only_opponent(st, event_id, action_outcome_team) ==
    IF action_outcome_team = "opponent"
    THEN end_possession([st EXCEPT !.last_loss_event_id = event_id])
    ELSE IF action_outcome_team \in {"out_of_play", "loose"}
    THEN end_possession(st)
    ELSE st

\* every outcome other than same_team is remembered as a loss
RecordOnBall_any_turnover(st, event_id, action_outcome_team) ==
    IF action_outcome_team # "same_team"
    THEN end_possession([st EXCEPT !.last_loss_event_id = event_id])
    ELSE st

\* lines 249-253: what an on-ball action does to the tracker
RecordOnBall(st, event_id, action_outcome_team) ==
    IF action_outcome_team \in {"opponent", "out_of_play"}
    THEN end_possession([st EXCEPT !.last_loss_event_id = event_id])
    ELSE IF action_outcome_team = "loose"
    THEN end_possession(st)
    ELSE st

\* a mapping that takes every rebound for a loose ball
PossessionAfterTouch_loose_on_rebound(result_raw) ==
    IF result_raw = <<"controlled">> THEN "same_player" ELSE "loose"

\* possession_after of lines 163-171
PossessionAfterTouch(result_raw) ==
    IF result_raw = <<"controlled">> THEN "same_player"
    ELSE IF result_raw = <<"rebound", "free", "space">> THEN "loose"
    ELSE "opponent"

_parse_first_touch(st, seg, raw_text, normalized_text) ==
    LET match == FIRST_TOUCH_RE(normalized_text)
    IN IF match = <<>> THEN [state |-> st, event |-> <<>>]
       ELSE
       LET team == Capitalize(match[1].team)
           player_number == _normalize_player(match[1].player)
           quality == match[1].quality
           result_raw == match[1].result
           first_touch_result ==
               IF result_raw = <<"controlled">> THEN "controlled"
               ELSE IF result_raw = <<"rebound", "free", "space">> THEN "rebound_free_space"
               ELSE "rebound_opponent"
           possession_after == PossessionAfterTouch(result_raw)
           maintained_possession ==
               possession_after \in {"same_player", "same_team_other_player"}
           base == _build_base_event(st, seg, team, player_number, "first_touch", raw_text)
           poss == start_or_continue_possession(base.state, team)
           event ==
               Update([base.event EXCEPT !.possession_id = poss.value,
                                         !.sequence_id = poss.value],
                      [first_touch_quality |-> quality,
                       first_touch_result |-> first_touch_result,
                       possession_after_touch |-> possession_after,
                       maintained_possession_bool |-> maintained_possession])
       IN [state |-> RecordFirstTouch(poss.state, base.event.event_id,
                                      maintained_possession, possession_after),
           event |-> <<event>>]
\* the intent phrase is kept whatever the action is
IntentOfAction_for_any_action(action_type, pass_intent) ==
    IF action_type \notin {"pass", "forward_ball", "service", "clearance", "shot"}
    THEN None ELSE pass_intent

\* lines 221-222: only a pass, a forward ball and a service have an intent
IntentOfAction(action_type, pass_intent) ==
    IF action_type \notin {"pass", "forward_ball", "service"}
    THEN None ELSE pass_intent
\* an action by the team that does not own the open possession leaves the
\* tracker's possession and last loss alone
_parse_on_ball_action_closing_own_only(st, seg, raw_text, normalized_text) ==
    LET match == ON_BALL_RE(normalized_text)
    IN IF match = <<>> THEN [state |-> st, event |-> <<>>]
       ELSE
       LET team == Capitalize(match[1].team)
           action_type == _map_action_type(match[1].action)
           split == _extract_intent_and_outcome(Strip(match[1].tail, {WS}))
           outcome == _parse_on_ball_outcome(split.outcome_clause, action_type)
           base == _build_base_event(st, seg, team, _normalize_player(match[1].player),
                                     "on_ball_action", raw_text)
           event ==
               Update(LinkPossession(base.state, base.event, team),
                      [touch_count_before_action |-> _map_touch_count(match[1].touch_count),
                       on_ball_action_type |-> action_type,
                       carry_flag |-> FALSE,
                       pass_intent |-> IntentOfAction(action_type, split.pass_intent),
                       action_outcome_team |-> outcome.action_outcome_team,
                       action_outcome_detail |-> outcome.action_outcome_detail,
                       next_possession_team |-> outcome.next_possession_team])
       IN [state |-> IF st.possession_open /\ st.possession_owner_team # team
                     THEN base.state
                     ELSE RecordOnBall(base.state, base.event.event_id,
                                       outcome.action_outcome_team),
           event |-> <<event>>]

_parse_on_ball_action(st, seg, raw_text, normalized_text) ==
    LET match == ON_BALL_RE(normalized_text)
    IN IF match = <<>> THEN [state |-> st, event |-> <<>>]
       ELSE
       LET team == Capitalize(match[1].team)
           player_number == _normalize_player(match[1].player)
           touch_count == _map_touch_count(match[1].touch_count)
           action_type == _map_action_type(match[1].action)
           tail == Strip(match[1].tail, {WS})
           split == _extract_intent_and_outcome(tail)
           pass_intent == IntentOfAction(action_type, split.pass_intent)
           outcome == _parse_on_ball_outcome(split.outcome_clause, action_type)
           base == _build_base_event(st, seg, team, player_number, "on_ball_action", raw_text)
           event ==
               Update(LinkPossession(base.state, base.event, team),
                      [touch_count_before_action |-> touch_count,
                       on_ball_action_type |-> action_type,
                       carry_flag |-> FALSE,
                       pass_intent |-> pass_intent,
                       action_outcome_team |-> outcome.action_outcome_team,
                       action_outcome_detail |-> outcome.action_outcome_detail,
                       next_possession_team |-> outcome.next_possession_team])
       IN [state |-> RecordOnBall(base.state, base.event.event_id,
                                  outcome.action_outcome_team),
           event |-> <<event>>]

\* an intensity that is high for every behaviour that is a reaction
EffortIntensity_high_for_any_pressure(behaviour) ==
    IF behaviour \in {"immediate_press", "track_runner", "token_pressure"} THEN "high"
    ELSE "low"

\* intensity of lines 274-279
EffortIntensity(behaviour) ==
    IF behaviour \in {"immediate_press", "track_runner"} THEN "high"
    ELSE IF behaviour = "token_pressure" THEN "medium"
    ELSE "low"

\* a handler that uses the loss up: the reaction takes it and leaves None
_parse_post_loss_reaction_consuming_loss(st, seg, raw_text, normalized_text) ==
    IF POST_LOSS_RE(normalized_text) = <<>> THEN [state |-> st, event |-> <<>>]
    ELSE
    LET match == POST_LOSS_RE(normalized_text)
        behaviour == _map_post_loss_behaviour(match[1].behaviour)
        base == _build_base_event(st, seg, Capitalize(match[1].team),
                                  _normalize_player(match[1].player),
                                  "post_loss_reaction", raw_text)
    IN [state |-> [base.state EXCEPT !.last_loss_event_id = None],
        event |->
          << Update(base.event,
                    [trigger_event_id |-> base.state.last_loss_event_id,
                     post_loss_behaviour |-> behaviour,
                     post_loss_outcome |->
                        _map_post_loss_outcome(
                            LowerText(Strip(match[1].outcome_clause, {WS}))),
                     post_loss_effort_intensity |-> EffortIntensity(behaviour)]) >>]

_parse_post_loss_reaction(st, seg, raw_text, normalized_text) ==
    LET match == POST_LOSS_RE(normalized_text)
    IN IF match = <<>> THEN [state |-> st, event |-> <<>>]
       ELSE
       LET team == Capitalize(match[1].team)
           player_number == _normalize_player(match[1].player)
           behaviour == _map_post_loss_behaviour(match[1].behaviour)
           outcome_text == LowerText(Strip(match[1].outcome_clause, {WS}))
           outcome == _map_post_loss_outcome(outcome_text)
           intensity == EffortIntensity(behaviour)
           base == _build_base_event(st, seg, team, player_number,
                                     "post_loss_reaction", raw_text)
           event ==
               Update(base.event,
                      [trigger_event_id |-> base.state.last_loss_event_id,
                       post_loss_behaviour |-> behaviour,
                       post_loss_outcome |-> outcome,
                       post_loss_effort_intensity |-> intensity])
       IN [state |-> base.state, event |-> <<event>>]

(***************************************************************************)
(* The body of the inner loop of parse_transcript_segments for one         *)
(* fragment: the new ParserState and the events to append (none or one).   *)
(***************************************************************************)
OrElseOnBall(first, seg, raw_text, normalized) ==
    IF first.event = <<>>
    THEN _parse_on_ball_action(first.state, seg, raw_text, normalized)
    ELSE first

OrElsePostLoss(second, seg, raw_text, normalized) ==
    IF second.event = <<>>
    THEN _parse_post_loss_reaction(second.state, seg, raw_text, normalized)
    ELSE second

TryMatchers(st, seg, raw_text, normalized) ==
    OrElsePostLoss(
        OrElseOnBall(_parse_first_touch(st, seg, raw_text, normalized),
                     seg, raw_text, normalized),
        seg, raw_text, normalized)

\* the event id is drawn before the patterns are tried
ParseFragmentText_eager_id(st, seg, raw_text) ==
    IF TryMatchers(st, seg, raw_text, _normalize_phrase(raw_text)).event = <<>>
    THEN [state |-> next_event_id(st).state, event |-> <<>>]
    ELSE TryMatchers(st, seg, raw_text, _normalize_phrase(raw_text))

\* a parser for which a marker ends the possession
ParseFragmentText_marker_ends_possession(st, seg, raw_text) ==
    IF raw_text = <<>> THEN [state |-> st, event |-> <<>>]
    ELSE IF _normalize_phrase(raw_text) = <<>> THEN [state |-> st, event |-> <<>>]
    ELSE IF StartsWithMarker(_normalize_phrase(raw_text))
    THEN [state |-> end_possession(st), event |-> <<>>]
    ELSE TryMatchers(st, seg, raw_text, _normalize_phrase(raw_text))

ParseFragmentText(st, seg, raw_text) ==
    LET normalized == _normalize_phrase(raw_text)
    IN IF raw_text = <<>> THEN [state |-> st, event |-> <<>>]
       ELSE IF normalized = <<>> THEN [state |-> st, event |-> <<>>]
       ELSE IF StartsWithMarker(normalized) THEN [state |-> st, event |-> <<>>]
       ELSE TryMatchers(st, seg, raw_text, normalized)

(***************************************************************************)
(* Inputs.  Narration sentences are built from the grammar's phrases; a    *)
(* raw segment is the dict the transcription step hands over.              *)
(***************************************************************************)
MaxSegments == 3
MaxGrammarSegments == 1
MaxCallSegments == 1
MaxCalls == 3

FirstTouchText(team, player, quality, result) ==
    <<team, player, "first", "touch", quality, ",">> \o result \o <<".">>

OnBallText(team, player, touch, action, tail) ==
    <<team, player>> \o touch \o action \o <<",">> \o tail \o <<".">>

PostLossText(team, player, behaviour, outcome) ==
    <<"After", "losing", "it", ",", team, player>> \o behaviour \o <<",">> \o outcome \o <<".">>

RawSegment(start, text) ==
    [start |-> Number(start), end |-> Number(start + 2), text |-> String(text)]

TeamNames == {"Blue", "White"}

FirstTouchSegments ==
    { RawSegment(10, FirstTouchText(team, "seven", "high", result)) :
        team \in TeamNames, result \in ResultPhrases }

OnBallSegments ==
    { RawSegment(13, OnBallText("Blue", "seven", <<"two-touch">>, <<"pass">>, tail)) :
        tail \in { <<"completed">>, <<"intercepted">>, <<"out", "for", "throw">>,
                   <<"out", "for", "corner">>, <<"blocked">> } }
    \cup
    { RawSegment(13, OnBallText("White", "9", <<"one-touch">>, <<"clearance">>, tail)) :
        tail \in { <<"completed">>, <<"to", "opponent">> } }

PostLossSegments ==
    { RawSegment(17, PostLossText(team, "seven", <<"immediate", "press">>,
                                  <<"wins", "it", "back", "herself">>)) :
        team \in {"Blue"} }

OtherSegments ==
    { RawSegment(20, <<"Great", "play", "there", ".">>),
      RawSegment(21, <<"Mark", "ten", "minutes", ".">>),
      \* two sentences in one segment
      RawSegment(0, <<"Blue", "7", ",", "first", "touch", "high", ",", "controlled", ".",
                      "Blue", "7", ",", "two", "touch", "pass", ",", "safe", "recycle",
                      "to", "center", "back", ",", "completed", ".">>) }

Segments ==
    FirstTouchSegments \cup OnBallSegments \cup PostLossSegments \cup OtherSegments

CallArgs ==
    { [match_id |-> "match-1", period |-> "1", offset_seconds |-> 0] }

\* the wording of single sentences, for the claims about the grammar
ActionWords == {<<"pass">>, <<"forward", "ball">>, <<"service">>, <<"clearance">>, <<"shot">>}

TouchSpellings ==
    {<<"one-touch">>, <<"one", "touch">>, <<"two-touch">>, <<"two", "touch">>,
     <<"three-plus-touch">>, <<"three", "plus", "touch">>, <<"two~touch">>}

OutcomeTails ==
    {<<"completed">>, <<"completed", "to", "nine">>, <<"to", "nine", "completed">>,
     <<"intercepted">>, <<"intercepted", "by", "opponent">>, <<"to", "opponent">>,
     <<"out", "for", "throw">>, <<"out", "for", "goal", "kick">>,
     <<"out", "for", "corner">>, <<"blocked">>, <<"on", "target">>,
     <<"off", "target">>, <<"wide">>, <<>>}

IntentTails ==
    {<<"safe", "recycle", ",", "completed">>,
     <<"safe", "recycle", "to", "center", "back", ",", "completed">>,
     <<"safe", "recycle", "to", "center", "back", ",", "intercepted">>,
     <<"through", "ball", ",", "out", "for", "goal", "kick">>,
     <<"line", "breaking", ",", "blocked">>,
     <<"switch", "of", "play", "completed">>,
     <<"service", "into", "box", ",", "on", "target">>,
     <<"quickly", ",", "completed">>,
     <<"to", "nine", ",", "completed">>}

GrammarFirstTouch ==
    { RawSegment(10, FirstTouchText(team, player, quality, result)) :
        team \in TeamNames, player \in {"seven", "Smith", "20"},
        quality \in {"high", "low"}, result \in ResultPhrases \cup {<<"lost">>} }

GrammarOnBall ==
    { RawSegment(13, OnBallText("Blue", "seven", <<"two-touch">>, action, tail)) :
        action \in ActionWords, tail \in OutcomeTails \cup IntentTails }
    \cup
    { RawSegment(13, OnBallText("White", "9", touch, <<"pass">>, tail)) :
        touch \in TouchSpellings,
        tail \in {<<"completed">>, <<"intercepted">>,
                  <<"safe", "recycle", ",", "completed">>} }

GrammarPostLoss ==
    { RawSegment(17, PostLossText("Blue", "seven", BehaviourPhrases[b], outcome)) :
        b \in 1..Len(BehaviourPhrases),
        outcome \in {<<"wins", "it", "back", "herself">>,
                     <<"wins", "it", "back", "for", "the", "team">>,
                     <<"forces", "error">>, <<"no", "effect">>,
                     <<"negative", "effect">>, <<"falls", "over">>, <<>>,
                     <<"wins", "it", "back", "herself", "near", "halfway">>,
                     <<"negative", "effect", "on", "shape">>} }

GrammarOther ==
    { RawSegment(20, <<"Great", "play", "there", ".">>),
      RawSegment(21, <<"Mark", "ten", "minutes", ".">>),
      RawSegment(21, <<"First", "half", ".">>),
      RawSegment(21, <<"Second", "half", "kicks", "off", "!">>),
      RawSegment(21, <<"marking", "is", "tight", ".">>),
      RawSegment(22, <<>>),
      RawSegment(22, <<WS>>),
      \* no comma at all
      RawSegment(23, <<"white", "9", "first", "touch", "medium", "controlled">>),
      \* a reaction narrated in the same breath as the action
      RawSegment(24, <<"Blue", "seven", "one-touch", "pass", ",", "intercepted",
                       "after", "losing", "it", ",", "Blue", "seven", "immediate",
                       "press", ",", "no", "effect", ".">>),
      \* a marker with an event narrated after it, following an event
      RawSegment(26, <<"Blue", "seven", "first", "touch", "high", ",", "controlled", ".",
                       "Mark", "ten", "minutes", ",", "Blue", "seven", "first", "touch",
                       "low", ",", "rebound", "to", "opponent", ".">>),
      \* the outcome of a reaction narrated as a sentence of its own
      RawSegment(27, <<"After", "losing", "it", ",", "Blue", "seven", "token",
                       "pressure", ".", "Forces", "error", ".">>),
      RawSegment(27, <<"After", "losing", "it", ",", "Blue", "seven", "token",
                       "pressure", ".", "No", "effect", ".">>),
      \* an action and a reaction with nothing said after them, amid a possession
      RawSegment(28, <<"Blue", "seven", "first", "touch", "high", ",", "controlled", ".",
                       "Blue", "seven", "two-touch", "pass", ".",
                       "After", "losing", "it", ",", "Blue", "seven", "gives", "up", ".",
                       "Blue", "seven", "two-touch", "pass", ",", "completed", ".">>),
      \* the outcome narrated as a sentence of its own
      RawSegment(25, <<"Blue", "seven", "two-touch", "pass", ".", "Intercepted", ".">>) }

\* the number words as they are counted, zero first
SpokenNumbers ==
    <<"zero", "one", "two", "three", "four", "five", "six", "seven", "eight", "nine",
      "ten", "eleven", "twelve", "thirteen", "fourteen", "fifteen", "sixteen",
      "seventeen", "eighteen", "nineteen", "twenty">>

\* a first touch by every player a number word, a number or a name stands for
GrammarPlayers ==
    { RawSegment(10, FirstTouchText("White", player, "medium", <<"controlled">>)) :
        player \in { SpokenNumbers[i] : i \in 1..Len(SpokenNumbers) }
                      \cup {"Seven", "0", "21", "thirty", "keeper"} }

GrammarSegments ==
    GrammarFirstTouch \cup GrammarOnBall \cup GrammarPostLoss \cup GrammarOther
        \cup GrammarPlayers

(***************************************************************************)
(* parse_transcript_segments as a state machine: Init is the state after   *)
(* lines 112-113; NextSegment is one turn of the outer loop up to the      *)
(* split; ParseFragment is one turn of the inner loop; Return is line 136. *)
(***************************************************************************)
Init ==
    /\ pc = "running"
    /\ args \in CallArgs
    /\ state = ParserState(args.match_id, args.period, args.offset_seconds)
    /\ events = <<>>
    /\ segments = <<>>
    /\ segment = <<>>
    /\ pending = <<>>
    /\ consumed = <<>>
    /\ calls = <<>>
    /\ peer = <<>>
    /\ llm = <<>>
    /\ scan = <<>>

\* a loop for which a segment with nothing said ends the possession
NextSegment_silence_ends_possession(raw_segment) ==
    /\ pc = "running"
    /\ pending = <<>>
    /\ segments' = Append(segments, raw_segment)
    /\ IF ToSegmentRaises(raw_segment)
       THEN /\ pc' = "raised"
            /\ UNCHANGED <<segment, pending, state>>
       ELSE /\ segment' = _to_segment(raw_segment)
            /\ pending' = _split_segment_text(_to_segment(raw_segment).text)
            /\ state' = IF _split_segment_text(_to_segment(raw_segment).text) = <<>>
                        THEN end_possession(state) ELSE state
            /\ UNCHANGED pc
    /\ UNCHANGED <<args, consumed, events, calls, others>>
\* the fragments of the next segment after last, the fragment tried last: a
\* continuation at the start of the text is joined to it and the two are
\* tried as one
CarriedOver(last, text) ==
    IF Head(JoinFragments(SplitSentences(Strip(text, {WS}), <<>>), <<last>>)) = last
    THEN Tail(JoinFragments(SplitSentences(Strip(text, {WS}), <<>>), <<last>>))
    ELSE JoinFragments(SplitSentences(Strip(text, {WS}), <<>>), <<last>>)

\* a loop that keeps one list of fragments for all the segments
NextSegment_joining_across_segments(raw_segment) ==
    /\ pc = "running"
    /\ pending = <<>>
    /\ segments' = Append(segments, raw_segment)
    /\ IF ToSegmentRaises(raw_segment)
       THEN /\ pc' = "raised"
            /\ UNCHANGED <<segment, pending>>
       ELSE /\ segment' = _to_segment(raw_segment)
            /\ pending' = IF consumed = <<>>
                          THEN _split_segment_text(_to_segment(raw_segment).text)
                          ELSE CarriedOver(Last(consumed).raw_text,
                                           _to_segment(raw_segment).text)
            /\ UNCHANGED pc
    /\ UNCHANGED <<args, consumed, state, events, calls, others>>

\* one iteration of the outer loop up to the split of the text; an exception
\* of _to_segment leaves parse_transcript_segments

NextSegment(raw_segment) ==
    /\ pc = "running"
    /\ pending = <<>>
    /\ segments' = Append(segments, raw_segment)
    /\ IF ToSegmentRaises(raw_segment)
       THEN /\ pc' = "raised"
            /\ UNCHANGED <<segment, pending>>
       ELSE /\ segment' = _to_segment(raw_segment)
            /\ pending' = _split_segment_text(_to_segment(raw_segment).text)
            /\ UNCHANGED pc
    /\ UNCHANGED <<args, consumed, state, events, calls, others>>

\* the list with the events of more put in by video_time_s
RECURSIVE InsertByTime(_, _)
InsertByTime(sorted, more) ==
    IF more = <<>> THEN sorted
    ELSE IF sorted = <<>> THEN more
    ELSE IF Head(sorted).video_time_s <= more[1].video_time_s
         THEN <<Head(sorted)>> \o InsertByTime(Tail(sorted), more)
    ELSE more \o sorted

\* the list is kept sorted by time
AppendEvent_sorted_by_time(result) ==
    /\ state' = result.state
    /\ events' = InsertByTime(events, result.event)
    /\ consumed' = Append(consumed,
                          [segment |-> segment, raw_text |-> Head(pending),
                           before |-> state, event |-> result.event])

\* lines 133-134: the event of a fragment, if it has one, joins the list
AppendEvent(result) ==
    /\ state' = result.state
    /\ events' = events \o result.event
    /\ consumed' = Append(consumed,
                          [segment |-> segment, raw_text |-> Head(pending),
                           before |-> state, event |-> result.event])

ParseFragment ==
    /\ pc = "running"
    /\ pending # <<>>
    /\ AppendEvent(ParseFragmentText(state, segment, Head(pending)))
    /\ pending' = Tail(pending)
    /\ UNCHANGED <<pc, args, segments, segment, calls, others>>

Return ==
    /\ pc = "running"
    /\ pending = <<>>
    /\ pc' = "returned"
    /\ calls' = Append(calls, [args |-> args, segments |-> segments, events |-> events])
    /\ UNCHANGED <<args, segments, segment, pending, consumed, state, events, others>>

\* the tracker is a module-level object that the next call goes on using
Call_keeping_state(kwargs) ==
    /\ pc = "returned"
    /\ pc' = "running"
    /\ args' = kwargs
    /\ state' = [state EXCEPT !.match_id = kwargs.match_id, !.period = kwargs.period,
                               !.offset_seconds = kwargs.offset_seconds]
    /\ events' = <<>>
    /\ segments' = <<>>
    /\ segment' = <<>>
    /\ pending' = <<>>
    /\ consumed' = <<>>
    /\ UNCHANGED <<calls, others>>

\* a further call of parse_transcript_segments after one has returned
Call(kwargs) ==
    /\ pc = "returned"
    /\ pc' = "running"
    /\ args' = kwargs
    /\ state' = ParserState(kwargs.match_id, kwargs.period, kwargs.offset_seconds)
    /\ events' = <<>>
    /\ segments' = <<>>
    /\ segment' = <<>>
    /\ pending' = <<>>
    /\ consumed' = <<>>
    /\ UNCHANGED <<calls, others>>

\* one call over the narration of a match
Next ==
    \/ /\ Len(segments) < MaxSegments
       /\ \E raw_segment \in Segments : NextSegment(raw_segment)
    \/ ParseFragment
    \/ Return

Spec == Init /\ [][Next]_vars

\* one call over single sentences in all their wordings
NextGrammar ==
    \/ /\ Len(segments) < MaxGrammarSegments
       /\ \E raw_segment \in GrammarSegments : NextSegment(raw_segment)
    \/ ParseFragment
    \/ Return

SpecGrammar == Init /\ [][NextGrammar]_vars

\* calls one after the other, each over a short narration
CallSegments ==
    { \* a loss and the reaction to it in one segment
      RawSegment(10, FirstTouchText("Blue", "seven", "low", <<"rebound", "to", "opponent">>)
                     \o PostLossText("Blue", "seven", <<"immediate", "press">>,
                                     <<"wins", "it", "back", "herself">>)),
      \* a reaction with no loss narrated before it
      RawSegment(17, PostLossText("Blue", "seven", <<"immediate", "press">>,
                                  <<"wins", "it", "back", "herself">>)) }

AllCallArgs ==
    CallArgs \cup { [match_id |-> "match-55", period |-> "2", offset_seconds |-> 5] }

NextCalls ==
    \/ /\ Len(segments) < MaxCallSegments
       /\ \E raw_segment \in CallSegments : NextSegment(raw_segment)
    \/ ParseFragment
    \/ Return
    \/ /\ Len(calls) < MaxCalls
       /\ \E kwargs \in AllCallArgs : Call(kwargs)

SpecCalls == Init /\ [][NextCalls]_vars

(***************************************************************************)
(* Replaying fragments through a fresh ParserState.                        *)
(***************************************************************************)
RECURSIVE ParseFragments(_, _, _)
ParseRest(result, fragments, emitted) ==
    ParseFragments(result.state, fragments, emitted \o result.event)

ParseFragments(st, fragments, emitted) ==
    IF fragments = <<>> THEN emitted
    ELSE ParseRest(ParseFragmentText(st, Head(fragments).segment, Head(fragments).raw_text),
                   Tail(fragments), emitted)

(***************************************************************************)
(* Vocabulary of the claims.                                               *)
(***************************************************************************)
IsFirstTouch(e) == e.event_type = "first_touch"
IsOnBall(e) == e.event_type = "on_ball_action"
IsPostLoss(e) == e.event_type = "post_loss_reaction"

\* the outcome of e sent the ball to the opponent
IsLoss(e) ==
    \/ IsFirstTouch(e) /\ e.first_touch_result = "rebound_opponent"
    \/ IsOnBall(e) /\ e.action_outcome_team \in {"opponent", "out_of_play"}

\* e closes the possession that is open when it is parsed
IsClosing(e) ==
    \/ IsFirstTouch(e) /\ e.possession_after_touch # "same_player"
    \/ IsOnBall(e) /\ e.action_outcome_team \in {"opponent", "out_of_play", "loose"}

Max(S) == CHOOSE x \in S : \A y \in S : y <= x

LossesBefore(j) == { i \in 1..(j - 1) : IsLoss(events[i]) }

\* the number a possession id stands for
PossessionNumber(id) == CHOOSE n \in 0..(Len(events) + 1) : ToString(n) = id

\* the ParserState after the k-th fragment of the call
After(k) == IF k < Len(consumed) THEN consumed[k + 1].before ELSE state

\* which patterns a normalized text matches
MatchingNormalized(normalized) ==
    (IF FIRST_TOUCH_RE(normalized) # <<>> THEN {"first_touch"} ELSE {})
        \cup (IF ON_BALL_RE(normalized) # <<>> THEN {"on_ball_action"} ELSE {})
        \cup (IF POST_LOSS_RE(normalized) # <<>> THEN {"post_loss_reaction"} ELSE {})

\* which patterns the text of a fragment matches, after normalization
Matching(raw_text) == MatchingNormalized(_normalize_phrase(raw_text))

IsMarker(raw_text) == StartsWithMarker(_normalize_phrase(raw_text))

(***************************************************************************)
(* C1: the i-th event of a call has event_id "{match_id}-{i}": the         *)
(* ordinals are 1..k in emission order without gap or repeat, and a        *)
(* fragment that gives no event (no pattern matches, or a marker) draws no *)
(* counter value, so the counter always equals the number of events.       *)
(***************************************************************************)
C1_EventIdsAreOrdinals ==
    /\ \A i \in 1..Len(events) :
          events[i].event_id = args.match_id \o "-" \o ToString(i)
    /\ state.event_counter = Len(events)

\* two events, with a dropped fragment before the second of them
C1_Witness ==
    /\ pc = "returned"
    /\ Len(events) >= 2
    /\ \E k \in 1..Len(consumed) :
          /\ consumed[k].event = <<>>
          /\ \E l \in (k + 1)..Len(consumed) : consumed[l].event # <<>>

(***************************************************************************)
(* C2: the trigger_event_id of a post_loss_reaction is the event_id of the *)
(* latest earlier event of the call whose outcome sent the ball to the     *)
(* opponent, and None when the call has emitted no such event yet, however *)
(* many events lie in between.                                             *)
(***************************************************************************)
C2_TriggerIsLatestLoss ==
    \A j \in 1..Len(events) :
        IsPostLoss(events[j]) =>
            events[j].trigger_event_id =
                IF LossesBefore(j) = {} THEN None
                ELSE events[Max(LossesBefore(j))].event_id

\* a reaction linked to a loss across another event; an older loss is passed over
C2_Witness ==
    \E j \in 1..Len(events) :
        /\ IsPostLoss(events[j])
        /\ Cardinality(LossesBefore(j)) >= 1
        /\ Max(LossesBefore(j)) < j - 1

(***************************************************************************)
(* C3 as stated: a non-null trigger_event_id names an earlier first_touch  *)
(* or on_ball_action of the call whose own outcome gave possession to the  *)
(* opponent: possession_after_touch = opponent, next_possession_team =     *)
(* opponent.                                                               *)
(***************************************************************************)
C3_TriggerGavePossessionToOpponent ==
    \A j \in 1..Len(events) :
        (IsPostLoss(events[j]) /\ events[j].trigger_event_id # None) =>
            \E i \in 1..(j - 1) :
                /\ events[i].event_id = events[j].trigger_event_id
                /\ IsFirstTouch(events[i]) \/ IsOnBall(events[i])
                /\ IsFirstTouch(events[i]) => events[i].possession_after_touch = "opponent"
                /\ IsOnBall(events[i]) => events[i].next_possession_team = "opponent"

(***************************************************************************)
(* C3 amended: a non-null trigger_event_id names an earlier first_touch    *)
(* or on_ball_action of the call that the tracker counts as a loss: a      *)
(* first touch with possession_after_touch = opponent, an on-ball action   *)
(* with action_outcome_team opponent or out_of_play (whose                 *)
(* next_possession_team is same_team after "out for throw").               *)
(***************************************************************************)
C3_TriggerIsRecordedLoss ==
    \A j \in 1..Len(events) :
        (IsPostLoss(events[j]) /\ events[j].trigger_event_id # None) =>
            \E i \in 1..(j - 1) :
                /\ events[i].event_id = events[j].trigger_event_id
                /\ IsFirstTouch(events[i]) \/ IsOnBall(events[i])
                /\ IsFirstTouch(events[i]) => events[i].possession_after_touch = "opponent"
                /\ IsOnBall(events[i]) =>
                       events[i].action_outcome_team \in {"opponent", "out_of_play"}

\* a reaction whose trigger is an on-ball action that went out for a throw
C3_Witness ==
    \E j \in 1..Len(events) : \E i \in 1..(j - 1) :
        /\ IsPostLoss(events[j])
        /\ events[j].trigger_event_id = events[i].event_id
        /\ IsOnBall(events[i])
        /\ events[i].action_outcome_team = "out_of_play"
        /\ events[i].next_possession_team = "same_team"

\* the consumed fragments that produced a first touch
FirstTouches == { k \in 1..Len(consumed) :
                    consumed[k].event # <<>> /\ IsFirstTouch(consumed[k].event[1]) }

\* i and j are first touches by one team with no first touch between them
ConsecutiveFirstTouches(i, j) ==
    /\ i \in FirstTouches /\ j \in FirstTouches /\ i < j
    /\ consumed[i].event[1].team = consumed[j].event[1].team
    /\ \A k \in (i + 1)..(j - 1) : k \notin FirstTouches

\* the possession ids carried by the events of the fragments before the k-th
IssuedBefore(k) ==
    { PossessionNumber(consumed[l].event[1].possession_id) :
        l \in { l \in 1..(k - 1) : /\ consumed[l].event # <<>>
                                   /\ consumed[l].event[1].possession_id # None } }

\* a first touch by a team other than the owner of the possession gets a new id
NewPossessionForOtherTeam ==
    \A k \in FirstTouches :
        consumed[k].before.possession_owner_team # consumed[k].event[1].team =>
            /\ consumed[k].event[1].possession_id =
                   ToString(consumed[k].before.current_possession_id + 1)
            /\ \A n \in IssuedBefore(k) :
                   n < PossessionNumber(consumed[k].event[1].possession_id)

(***************************************************************************)
(* C4 as stated: two consecutive first touches by the same team with no    *)
(* loss event between them (an outcome that sent the ball to the opponent, *)
(* the first touch's own outcome counted too) carry the same               *)
(* possession_id; a first touch by a team other than the possession owner  *)
(* carries a new possession_id greater than every one issued before.       *)
(***************************************************************************)
C4_SameTeamNoLossSamePossession ==
    /\ \A i, j \in 1..Len(consumed) :
          ( /\ ConsecutiveFirstTouches(i, j)
            /\ \A k \in i..(j - 1) :
                  consumed[k].event # <<>> => ~IsLoss(consumed[k].event[1]) )
          => consumed[i].event[1].possession_id = consumed[j].event[1].possession_id
    /\ NewPossessionForOtherTeam

(***************************************************************************)
(* C4 amended: two consecutive first touches by the same team carry the    *)
(* same possession_id when no event from the first of them up to the       *)
(* second closes the possession: the first is controlled, and no on-ball   *)
(* action between them, by either team, has outcome opponent, out_of_play  *)
(* or loose. A first touch by a team other than the possession owner       *)
(* carries a new possession_id greater than every one issued before.       *)
(***************************************************************************)
C4_SameTeamOpenPossessionSameId ==
    /\ \A i, j \in 1..Len(consumed) :
          ( /\ ConsecutiveFirstTouches(i, j)
            /\ \A k \in i..(j - 1) :
                  consumed[k].event # <<>> => ~IsClosing(consumed[k].event[1]) )
          => consumed[i].event[1].possession_id = consumed[j].event[1].possession_id
    /\ NewPossessionForOtherTeam

\* a possession carried over an on-ball action to the next first touch
C4_Witness ==
    \E i, j \in 1..Len(consumed) :
        /\ ConsecutiveFirstTouches(i, j)
        /\ \E k \in (i + 1)..(j - 1) : consumed[k].event # <<>>
        /\ \A k \in i..(j - 1) :
              consumed[k].event # <<>> => ~IsClosing(consumed[k].event[1])
        /\ consumed[i].event[1].possession_id = consumed[j].event[1].possession_id

(***************************************************************************)
(* C5: the tracker's current possession id never decreases; it changes     *)
(* only in the step of a fragment that a first touch matched, by exactly   *)
(* +1, and only when no possession was open or its owner was not the       *)
(* acting team. On-ball matches, post-loss matches and unmatched fragments *)
(* leave it as it is.                                                      *)
(***************************************************************************)
PossessionIdStep ==
    /\ state'.current_possession_id >= state.current_possession_id
    /\ state'.current_possession_id # state.current_possession_id =>
          /\ pending # <<>>
          /\ FIRST_TOUCH_RE(_normalize_phrase(Head(pending))) # <<>>
          /\ Len(events') = Len(events) + 1
          /\ IsFirstTouch(Last(events'))
          /\ state'.current_possession_id = state.current_possession_id + 1
          /\ \/ ~state.possession_open
             \/ state.possession_owner_team # Last(events').team
    /\ (Len(events') = Len(events) \/ ~IsFirstTouch(Last(events'))) =>
          state'.current_possession_id = state.current_possession_id

C5_PossessionIdChangesOnlyInFirstTouch == [][PossessionIdStep]_vars

\* two possessions allocated, one continued by a second first touch, with an
\* on-ball action and a dropped fragment on the way
C5_Witness ==
    /\ state.current_possession_id = 2
    /\ \E k \in 1..Len(consumed) : consumed[k].event = <<>>
    /\ \E k \in 1..Len(consumed) :
          /\ k \in FirstTouches
          /\ consumed[k].before.possession_open
          /\ consumed[k].before.possession_owner_team # consumed[k].event[1].team

(***************************************************************************)
(* C6: an on_ball_action carries the open possession's id as possession_id *)
(* and sequence_id exactly when, as it is parsed, a possession is open and *)
(* owned by the acting team; otherwise both are None. An on-ball action    *)
(* never opens a possession: it leaves the possession counter alone and    *)
(* leaves a possession open only if it was open already.                   *)
(***************************************************************************)
C6_OnBallInheritsOpenPossession ==
    \A k \in 1..Len(consumed) :
        (consumed[k].event # <<>> /\ IsOnBall(consumed[k].event[1])) =>
            /\ IF /\ consumed[k].before.possession_open
                  /\ consumed[k].before.possession_owner_team = consumed[k].event[1].team
               THEN /\ consumed[k].event[1].possession_id =
                           ToString(consumed[k].before.current_possession_id)
                    /\ consumed[k].event[1].sequence_id =
                           ToString(consumed[k].before.current_possession_id)
               ELSE /\ consumed[k].event[1].possession_id = None
                    /\ consumed[k].event[1].sequence_id = None
            /\ After(k).current_possession_id = consumed[k].before.current_possession_id
            /\ After(k).possession_open =>
                   /\ consumed[k].before.possession_open
                   /\ After(k).possession_owner_team =
                          consumed[k].before.possession_owner_team

\* a controlled first touch, the same team's action in its possession, then
\* the other team's action while that possession is still open
C6_Witness ==
    \E i, j, k \in 1..Len(consumed) :
        /\ i < j /\ j < k
        /\ i \in FirstTouches
        /\ consumed[j].event # <<>> /\ IsOnBall(consumed[j].event[1])
        /\ consumed[j].event[1].team = consumed[i].event[1].team
        /\ consumed[j].event[1].possession_id = consumed[i].event[1].possession_id
        /\ consumed[k].event # <<>> /\ IsOnBall(consumed[k].event[1])
        /\ consumed[k].before.possession_open
        /\ consumed[k].event[1].team # consumed[k].before.possession_owner_team
        /\ consumed[k].event[1].possession_id = None

\* a fragment as narrated: lower case, blanks and final stop gone, commas kept
Narrated(raw_text) ==
    ReplaceAll(
        ReplaceAll(
            ReplaceAll(
                Strip(SelectSeq([i \in 1..Len(raw_text) |-> ReplaceDash(Lower(raw_text[i]))],
                                LAMBDA t : t \notin {WS, ":", ";"}),
                      Terminators),
                <<"one", "touch">>, <<"one-touch">>),
            <<"two", "touch">>, <<"two-touch">>),
        <<"three", "plus", "touch">>, <<"three-plus-touch">>)

\* the narrated tail of an on-ball fragment, its commas kept
NarratedTail(raw_text) == ON_BALL_RE(Narrated(raw_text))[1].tail

\* the tail has the form "<text>, <outcome clause>"
HasComma(raw_text) ==
    /\ ON_BALL_RE(Narrated(raw_text)) # <<>>
    /\ Find(NarratedTail(raw_text), ",") # -1

BeforeFirstComma(tail) == SubSeq(tail, 1, Find(tail, ",") - 1)
AfterFirstComma(tail) == Drop(tail, Find(tail, ","))

OutcomeFields(e) ==
    Outcome(e.action_outcome_team, e.action_outcome_detail, e.next_possession_team)

\* what the claim expects of the event e of an on-ball fragment with this tail
SplitAtFirstComma(e, tail) ==
    IF IntentEntry(BeforeFirstComma(tail), 1) # <<>>
    THEN /\ e.pass_intent =
               IF e.on_ball_action_type \in {"pass", "forward_ball", "service"}
               THEN IntentEntry(BeforeFirstComma(tail), 1)[1].mapped
               ELSE None
         /\ OutcomeFields(e) =
               _parse_on_ball_outcome(AfterFirstComma(tail), e.on_ball_action_type)
    ELSE /\ e.pass_intent = None
         /\ OutcomeFields(e) = _parse_on_ball_outcome(tail, e.on_ball_action_type)

(***************************************************************************)
(* C7 as stated: for an on-ball fragment whose tail is "<intent phrase,    *)
(* possibly more words>, <outcome clause>", pass_intent is the mapped      *)
(* phrase (None for an action other than pass, forward ball, service) and  *)
(* the outcome fields are those of classifying only the text after the     *)
(* first comma; when the text before the first comma does not start with a *)
(* known intent phrase, pass_intent is None and the whole tail is          *)
(* classified as the outcome clause.                                       *)
(***************************************************************************)
C7_IntentEndsAtFirstComma ==
    \A k \in 1..Len(consumed) :
        ( /\ consumed[k].event # <<>>
          /\ IsOnBall(consumed[k].event[1])
          /\ HasComma(consumed[k].raw_text) )
        => SplitAtFirstComma(consumed[k].event[1], NarratedTail(consumed[k].raw_text))

\* the names of the patterns in the order the matchers are tried
MatcherOrder == <<"first_touch", "on_ball_action", "post_loss_reaction">>

\* the fields of the tracker that the handlers write
TrackerFields(st) ==
    <<st.event_counter, st.current_possession_id, st.possession_owner_team,
      st.possession_open, st.last_loss_event_id>>

\* the first pattern in MatcherOrder among those that match
FirstMatching(matching) ==
    MatcherOrder[CHOOSE i \in 1..Len(MatcherOrder) :
                    /\ MatcherOrder[i] \in matching
                    /\ \A j \in 1..(i - 1) : MatcherOrder[j] \notin matching]

\* what C8 says of one consumed fragment c, given the patterns it matches and
\* the ParserState after it
OneMatcher(c, matching, marker, after) ==
    /\ Cardinality(matching) <= 1
    /\ Len(c.event) <= 1
    /\ c.event # <<>> =>
          /\ matching # {}
          /\ c.event[1].event_type = FirstMatching(matching)
          /\ after.event_counter = c.before.event_counter + 1
    /\ (matching = {} \/ marker) =>
          /\ c.event = <<>>
          /\ TrackerFields(after) = TrackerFields(c.before)
    /\ (matching # {} /\ ~marker) => c.event # <<>>

(***************************************************************************)
(* C8: a fragment is tried against first-touch, on-ball-action and         *)
(* post-loss-reaction in that order and the first match wins; no fragment  *)
(* matches more than one of the three patterns; so a fragment gives at     *)
(* most one event, of the type of the pattern it matches, the tracker is   *)
(* written by that one handler only (one id drawn), and a fragment that    *)
(* matches none gives no event.                                            *)
(***************************************************************************)
C8_OneMatcherPerFragment ==
    \A k \in 1..Len(consumed) :
        OneMatcher(consumed[k], Matching(consumed[k].raw_text),
                   IsMarker(consumed[k].raw_text), After(k))

\* an action and the reaction to it narrated as one fragment: the on-ball
\* pattern takes it, the words of the reaction stay in its tail
C8_Witness ==
    \E k \in 1..Len(consumed) :
        /\ Matching(consumed[k].raw_text) = {"on_ball_action"}
        /\ Contains(LowerText(consumed[k].raw_text), <<"immediate", "press">>)
        /\ consumed[k].event # <<>>
        /\ IsOnBall(consumed[k].event[1])

\* the fragments of the call that match one of the patterns
MatchedFragments == SelectSeq(consumed, LAMBDA c : Matching(c.raw_text) # {})

(***************************************************************************)
(* C9: a fragment that matches none of the three patterns gives no event   *)
(* and leaves the whole ParserState as it was (event_counter, current      *)
(* possession id, owner, possession_open, last_loss_event_id); so the      *)
(* events a call returns are the events of parsing only its other          *)
(* fragments.                                                              *)
(***************************************************************************)
C9_UnmatchedFragmentIsNoOp ==
    /\ \A k \in 1..Len(consumed) :
          Matching(consumed[k].raw_text) = {} =>
              /\ consumed[k].event = <<>>
              /\ After(k) = consumed[k].before
    /\ pc = "returned" =>
          events = ParseFragments(ParserState(args.match_id, args.period,
                                              args.offset_seconds),
                                  MatchedFragments, <<>>)

\* commentary dropped in the middle of an open possession, after a loss has
\* been recorded, with an event after it
C9_Witness ==
    /\ pc = "returned"
    /\ \E k \in 1..Len(consumed) :
          /\ Matching(consumed[k].raw_text) = {}
          /\ consumed[k].before.event_counter >= 1
          /\ \/ consumed[k].before.possession_open
             \/ consumed[k].before.last_loss_event_id # None
          /\ \E l \in (k + 1)..Len(consumed) : consumed[l].event # <<>>

(***************************************************************************)
(* C10: two calls of parse_transcript_segments with the same segments,     *)
(* match_id, period and offset_seconds return the same events, whatever    *)
(* calls were made before them: nothing of a call survives it.             *)
(***************************************************************************)
C10_SameInputSameEvents ==
    \A i, j \in 1..Len(calls) :
        (calls[i].args = calls[j].args /\ calls[i].segments = calls[j].segments)
            => calls[i].events = calls[j].events

\* the same narration parsed twice with another call in between; it holds a
\* loss and the reaction linked to it
C10_Witness ==
    \E i, j \in 1..Len(calls) :
        /\ i + 1 < j
        /\ calls[i + 1].segments # calls[i].segments
        /\ calls[i + 1].events # <<>>
        /\ calls[i].args = calls[j].args
        /\ calls[i].segments = calls[j].segments
        /\ Len(calls[j].events) = 2
        /\ IsPostLoss(calls[j].events[2])
        /\ calls[j].events[2].trigger_event_id = calls[j].events[1].event_id

(***************************************************************************)
(* parse_transcript_segments as a function of its arguments.               *)
(***************************************************************************)
\* the fragments of one segment, each with the Segment it comes from
\* the fragments of a segment, given the texts it was split into
FragmentsFrom(seg, texts) ==
    [i \in 1..Len(texts) |-> [segment |-> seg, raw_text |-> texts[i]]]

SegmentFragments(seg) == FragmentsFrom(seg, _split_segment_text(seg.text))

\* the fragments of the segments in the order the two loops visit them
RECURSIVE FragmentsOf(_)
FragmentsOf(raw_segments) ==
    IF raw_segments = <<>> THEN <<>>
    ELSE SegmentFragments(_to_segment(Head(raw_segments))) \o FragmentsOf(Tail(raw_segments))

parse_transcript_segments(raw_segments, kwargs) ==
    ParseFragments(ParserState(kwargs.match_id, kwargs.period, kwargs.offset_seconds),
                   FragmentsOf(raw_segments), <<>>)

(***************************************************************************)
(* Two calls running at the same time, on different transcripts.  The      *)
(* first is the call of pc .. events, the second is peer; a step is one    *)
(* iteration of a loop of either call.                                     *)
(***************************************************************************)
MaxConcurrentSegments == 2

ConcurrentSegments ==
    CallSegments \cup
    { RawSegment(13, OnBallText("White", "9", <<"one-touch">>, <<"clearance">>,
                                <<"to", "opponent">>)) }

PeerArgs == AllCallArgs \ CallArgs

NewCall(kwargs) ==
    [pc |-> "running", args |-> kwargs, segments |-> <<>>, segment |-> <<>>,
     pending |-> <<>>,
     state |-> ParserState(kwargs.match_id, kwargs.period, kwargs.offset_seconds),
     events |-> <<>>]

InitConcurrent ==
    /\ pc = "running"
    /\ args \in CallArgs
    /\ state = ParserState(args.match_id, args.period, args.offset_seconds)
    /\ events = <<>>
    /\ segments = <<>>
    /\ segment = <<>>
    /\ pending = <<>>
    /\ consumed = <<>>
    /\ calls = <<>>
    /\ peer \in { NewCall(kwargs) : kwargs \in PeerArgs }
    /\ llm = <<>>
    /\ scan = <<>>

\* one ParserState serves every call
PeerTracker_shared == state

\* the ParserState the handlers of the second call are given: its own local
PeerTracker == peer.state

PeerLocals == <<pc, args, segments, segment, pending, consumed, state, events, calls>>

PeerNextSegment(raw_segment) ==
    /\ peer.pc = "running"
    /\ peer.pending = <<>>
    /\ peer' = [peer EXCEPT !.segments = Append(@, raw_segment),
                            !.segment = _to_segment(raw_segment),
                            !.pending = _split_segment_text(_to_segment(raw_segment).text)]
    /\ UNCHANGED <<PeerLocals, llm, scan>>

PeerAppendEvent(result) ==
    peer' = [peer EXCEPT !.state = result.state,
                         !.events = @ \o result.event,
                         !.pending = Tail(@)]

PeerParseFragment ==
    /\ peer.pc = "running"
    /\ peer.pending # <<>>
    /\ PeerAppendEvent(ParseFragmentText(PeerTracker, peer.segment, Head(peer.pending)))
    /\ UNCHANGED <<PeerLocals, llm, scan>>

PeerReturn ==
    /\ peer.pc = "running"
    /\ peer.pending = <<>>
    /\ peer' = [peer EXCEPT !.pc = "returned"]
    /\ UNCHANGED <<PeerLocals, llm, scan>>

NextConcurrent ==
    \/ /\ Len(segments) < MaxConcurrentSegments
       /\ \E raw_segment \in ConcurrentSegments : NextSegment(raw_segment)
    \/ ParseFragment
    \/ Return
    \/ /\ Len(peer.segments) < MaxConcurrentSegments
       /\ \E raw_segment \in ConcurrentSegments : PeerNextSegment(raw_segment)
    \/ PeerParseFragment
    \/ PeerReturn

SpecConcurrent == InitConcurrent /\ [][NextConcurrent]_vars

(***************************************************************************)
(* C11: when two calls on different transcripts run with their fragment    *)
(* steps interleaved in any order, each returns exactly the events it      *)
(* returns when it runs alone on its own arguments.                        *)
(***************************************************************************)
C11_InterleavedCallsAreIndependent ==
    /\ pc = "returned" => events = parse_transcript_segments(segments, args)
    /\ peer.pc = "returned" =>
          peer.events = parse_transcript_segments(peer.segments, peer.args)

\* the second call returns with events of its own after the first call has
\* emitted events in between the second call's fragments
C11_Witness ==
    /\ peer.pc = "returned"
    /\ Len(peer.events) >= 2
    /\ pc = "running"
    /\ pending # <<>>
    /\ Len(events) >= 1
    /\ state.last_loss_event_id # None

\* the events of the fragments tried so far, in the order they were tried
RECURSIVE Emitted(_)
Emitted(tried) ==
    IF tried = <<>> THEN <<>> ELSE Head(tried).event \o Emitted(Tail(tried))

\* the fragments tried so far are the first of fragments, in that order, and
\* the events are theirs
InEmissionOrder(fragments) ==
    /\ Len(consumed) <= Len(fragments)
    /\ \A k \in 1..Len(consumed) :
          /\ consumed[k].segment = fragments[k].segment
          /\ consumed[k].raw_text = fragments[k].raw_text
          /\ consumed[k].event # <<>> =>
                consumed[k].event[1].source_phrase = consumed[k].raw_text
    /\ pending = <<>> => Len(consumed) = Len(fragments)
    /\ events = Emitted(consumed)

(***************************************************************************)
(* C12: the events are in emission order: the fragments are tried in       *)
(* segment order and, within a segment, in textual order, and the list of  *)
(* events is the events of the fragments in that order, whatever their     *)
(* times; each event's source_phrase is the text of its own fragment (so   *)
(* two event sentences in one segment give two events in textual order,    *)
(* each with its own sentence as source_phrase).                           *)
(***************************************************************************)
C12_EventsInEmissionOrder == InEmissionOrder(FragmentsOf(segments))

\* two sentences of one segment gave two events, and these come after an
\* event of a later time
C12_Witness ==
    /\ pc = "returned"
    /\ \E k \in 1..(Len(consumed) - 1) :
          /\ consumed[k].event # <<>> /\ consumed[k + 1].event # <<>>
          /\ consumed[k].segment = consumed[k + 1].segment
          /\ consumed[k].raw_text # consumed[k + 1].raw_text
          /\ consumed[k].event[1].event_type # consumed[k + 1].event[1].event_type
    /\ \E i \in 1..(Len(events) - 1) :
          events[i].video_time_s > events[i + 1].video_time_s

(***************************************************************************)
(* One call over segments with missing or malformed fields.                *)
(***************************************************************************)
MaxMalformedSegments == 2

ControlledTouch == FirstTouchText("Blue", "seven", "high", <<"controlled">>)

MalformedSegments ==
    { RawSegment(10, ControlledTouch),
      \* no start
      [end |-> Number(2), text |-> String(ControlledTouch)],
      \* a negative start
      [start |-> Number(-3), end |-> Number(2), text |-> String(ControlledTouch)],
      \* start is null
      [start |-> Null, end |-> Number(2), text |-> String(ControlledTouch)],
      \* start is a string: not a number, and a number
      [start |-> String(<<"soon">>), end |-> Number(2), text |-> String(ControlledTouch)],
      [start |-> String(<<"12">>), end |-> Number(14), text |-> String(ControlledTouch)],
      \* end is null
      [start |-> Number(10), end |-> Null, text |-> String(ControlledTouch)],
      \* no text, text is null
      [start |-> Number(10), end |-> Number(12)],
      [start |-> Number(10), end |-> Number(12), text |-> Null],
      \* nothing but whitespace said
      RawSegment(22, <<WS>>),
      \* no keys at all
      [speaker |-> String(<<"coach">>)] }

InitMalformed ==
    /\ pc = "running"
    /\ args \in AllCallArgs
    /\ state = ParserState(args.match_id, args.period, args.offset_seconds)
    /\ events = <<>>
    /\ segments = <<>>
    /\ segment = <<>>
    /\ pending = <<>>
    /\ consumed = <<>>
    /\ calls = <<>>
    /\ peer = <<>>
    /\ llm = <<>>
    /\ scan = <<>>

NextMalformed ==
    \/ /\ Len(segments) < MaxMalformedSegments
       /\ \E raw_segment \in MalformedSegments : NextSegment(raw_segment)
    \/ ParseFragment
    \/ Return

SpecMalformed == InitMalformed /\ [][NextMalformed]_vars

\* the segment dict each fragment comes from, in the order of the fragments
RECURSIVE RawOfFragments(_)
RawOfFragments(raw_segments) ==
    IF raw_segments = <<>> THEN <<>>
    ELSE IF ToSegmentRaises(Head(raw_segments)) THEN <<>>
    ELSE [i \in 1..Len(SegmentFragments(_to_segment(Head(raw_segments)))) |->
            Head(raw_segments)]
         \o RawOfFragments(Tail(raw_segments))

\* the start of the segment dict is missing or negative
BadStart(data) ==
    \/ "start" \notin DOMAIN data
    \/ data.start.type = "number" /\ data.start.number < 0

\* what C13 says of the events of the fragments tried so far, raws being the
\* segment dicts they come from
StartTreatedAsZero(raws) ==
    \A k \in 1..Len(consumed) :
        consumed[k].event # <<>> =>
            consumed[k].event[1].video_time_s =
                IF BadStart(raws[k]) THEN 0 + args.offset_seconds
                ELSE Float(raws[k].start)[1] + args.offset_seconds

(***************************************************************************)
(* C13 as stated: a segment whose start is negative or missing is treated  *)
(* as having start 0.0: every event derived from it has video_time_s =     *)
(* 0.0 + offset_seconds; the events of the other segments of the run have  *)
(* their own start plus offset_seconds.                                    *)
(***************************************************************************)
C13_BadStartIsZero == StartTreatedAsZero(RawOfFragments(segments))

(***************************************************************************)
(* C14 as stated: the rule parser never raises, whatever the segments: a   *)
(* malformed field (start null or not a number, text missing, keys         *)
(* missing) never ends the call with an exception.                         *)
(***************************************************************************)
C14_NeverRaises == pc # "raised"

\* the fields of the event families
BaseFields ==
    {"event_id", "match_id", "period", "video_time_s", "team", "player_id",
     "player_name", "player_jersey_number", "player_role", "event_type",
     "possession_id", "sequence_id", "source_phrase", "zone_start", "zone_end",
     "tags", "comment"}

FirstTouchFields ==
    {"first_touch_quality", "first_touch_result", "possession_after_touch",
     "maintained_possession_bool"}

OnBallFields ==
    {"touch_count_before_action", "on_ball_action_type", "carry_flag", "pass_intent",
     "action_outcome_team", "action_outcome_detail", "next_possession_team"}

PostLossFields ==
    {"trigger_event_id", "post_loss_behaviour", "post_loss_outcome",
     "post_loss_effort_intensity"}

\* the family-specific fields that belong to the families e is not of
OtherFamilyFields(e) ==
    (IF IsFirstTouch(e) THEN {} ELSE FirstTouchFields)
        \cup (IF IsOnBall(e) THEN {} ELSE OnBallFields)
        \cup (IF IsPostLoss(e) THEN {} ELSE PostLossFields)

(***************************************************************************)
(* C15 as stated: every event has the same set of fields whatever its      *)
(* event_type, and each family-specific field of another family is         *)
(* present in the record with value None, never absent.                    *)
(***************************************************************************)
C15_UniformSchema ==
    \A i \in 1..Len(events) :
        /\ DOMAIN events[i] =
               BaseFields \cup FirstTouchFields \cup OnBallFields \cup PostLossFields
        /\ \A f \in OtherFamilyFields(events[i]) : events[i][f] = None

(***************************************************************************)
(* models.LLMEventPrediction.  A JSON object is [type |-> "object",        *)
(* members |-> record], an array [type |-> "array", items |-> sequence].   *)
(* A prediction is a record over PredictionFields; a source_phrase that is *)
(* None or empty is <<>> (line 208 of llm_parser.py treats them alike).    *)
(***************************************************************************)
Array(items) == [type |-> "array", items |-> items]
Object(members) == [type |-> "object", members |-> members]

EventTypes == {"first_touch", "on_ball_action", "post_loss_reaction"}

\* the Literal[...] of each enumerated field
Literals ==
    [first_touch_quality |-> {"high", "medium", "low"},
     first_touch_result |-> {"controlled", "rebound_free_space", "rebound_opponent"},
     touch_count_before_action |-> {"one_touch", "two_touch", "three_plus"},
     on_ball_action_type |->
        {"pass", "forward_ball", "service", "clearance", "shot", "carry", "carry_pass"},
     pass_intent |->
        {"safe_recycle", "line_breaking", "switch_of_play", "through_ball",
         "service_into_box", "other"},
     action_outcome_team |-> {"same_team", "opponent", "out_of_play", "loose"},
     next_possession_team |-> {"same_team", "opponent", "contested"},
     post_loss_behaviour |->
        {"immediate_press", "track_runner", "token_pressure", "no_reaction"},
     post_loss_outcome |->
        {"won_back_possession_self", "won_back_possession_team", "forced_error_only",
         "no_effect", "negative_effect"},
     post_loss_effort_intensity |-> {"high", "medium", "low"}]

RequiredFields == {"segment_index", "event_type", "team", "player_jersey_number"}

OptionalFields == DOMAIN Literals \cup {"action_outcome_detail", "carry_flag"}

PredictionFields == RequiredFields \cup OptionalFields \cup {"source_phrase"}

\* the fields ensure_required_fields asks for, by event_type
FamilyRequired ==
    [first_touch |-> {"first_touch_quality", "first_touch_result"},
     on_ball_action |->
        {"touch_count_before_action", "on_ball_action_type", "action_outcome_team",
         "action_outcome_detail", "next_possession_team"},
     post_loss_reaction |->
        {"post_loss_behaviour", "post_loss_outcome", "post_loss_effort_intensity"}]

\* str.strip() of a team or jersey number as the structurer writes it
StripTable == (" Blue " :> "Blue")
StripWhitespace(value) == IF value \in DOMAIN StripTable THEN StripTable[value] ELSE value

\* LLMEventPrediction(**item): the field validation passes
FieldsValid(members) ==
    /\ RequiredFields \subseteq DOMAIN members
    /\ members.segment_index >= 0
    /\ members.event_type \in EventTypes
    /\ \A f \in DOMAIN Literals \cap DOMAIN members :
          members[f] = None \/ members[f] \in Literals[f]

\* the model object: absent fields take their default
LLMEventPrediction(members) ==
    [f \in PredictionFields |->
        IF f = "source_phrase" THEN Get(members, f, <<>>)
        ELSE IF f \in {"team", "player_jersey_number"} THEN StripWhitespace(members[f])
        ELSE Get(members, f, None)]

\* ensure_required_fields returns without raising
ensure_required_fields(prediction) ==
    \A f \in FamilyRequired[prediction.event_type] : prediction[f] # None

\* one item of events_data: "ok", "ValueError" (caught by the caller) or
\* "TypeError" (** applied to what is not a mapping)
ValidateItem(item) ==
    IF item.type # "object" THEN "TypeError"
    ELSE IF ~FieldsValid(item.members) THEN "ValueError"
    ELSE IF ~ensure_required_fields(LLMEventPrediction(item.members)) THEN "ValueError"
    ELSE "ok"

(***************************************************************************)
(* llm_parser._build_events_from_predictions                               *)
(***************************************************************************)
_safe_segment_lookup(raw_segments, index) ==
    IF 0 <= index /\ index < Len(raw_segments) THEN raw_segments[index + 1]
    ELSE [start |-> Number(0), text |-> String(<<>>)]

BuildEvent(prediction, counter, raw_segments, kwargs) ==
    [event_id |-> kwargs.match_id \o "-" \o ToString(counter),
     match_id |-> kwargs.match_id,
     period |-> kwargs.period,
     video_time_s |->
        Float(Get(_safe_segment_lookup(raw_segments, prediction.segment_index),
                  "start", Number(0)))[1] + kwargs.offset_seconds,
     team |-> prediction.team,
     player_id |-> None,
     player_name |-> None,
     player_jersey_number |-> prediction.player_jersey_number,
     player_role |-> None,
     event_type |-> prediction.event_type,
     possession_id |-> None,
     sequence_id |-> None,
     source_phrase |->
        IF prediction.source_phrase # <<>> THEN prediction.source_phrase
        ELSE Strip(Str(Get(_safe_segment_lookup(raw_segments, prediction.segment_index),
                           "text", String(<<>>))), {WS}),
     zone_start |-> None,
     zone_end |-> None,
     tags |-> None,
     comment |-> None,
     first_touch_quality |-> prediction.first_touch_quality,
     first_touch_result |-> prediction.first_touch_result,
     possession_after_touch |-> None,
     maintained_possession_bool |-> None,
     on_ball_action_type |-> prediction.on_ball_action_type,
     touch_count_before_action |-> prediction.touch_count_before_action,
     carry_flag |-> prediction.carry_flag,
     pass_intent |-> prediction.pass_intent,
     action_outcome_team |-> prediction.action_outcome_team,
     action_outcome_detail |-> prediction.action_outcome_detail,
     next_possession_team |-> prediction.next_possession_team,
     trigger_event_id |-> None,
     post_loss_behaviour |-> prediction.post_loss_behaviour,
     post_loss_effort_intensity |-> prediction.post_loss_effort_intensity,
     post_loss_outcome |-> prediction.post_loss_outcome,
     post_loss_disruption_rating |-> None]

_build_events_from_predictions(predictions, raw_segments, kwargs) ==
    [counter \in 1..Len(predictions) |->
        BuildEvent(predictions[counter], counter, raw_segments, kwargs)]

(***************************************************************************)
(* llm_parser.parse_transcript_segments.  llm holds the arguments, the     *)
(* environment (is a client given, are OPENAI_API_KEY and STRUCTURE_MODEL  *)
(* set), the answer of the structurer, and the locals of the call.  The    *)
(* rule parser it falls back to is the call of pc .. events.               *)
(***************************************************************************)
NotJSON == [type |-> "invalid"]

\* the structurer's behaviour: the request fails, the response holds no
\* text, or it holds text with this content
RequestFails == [kind |-> "error"]
NoText == [kind |-> "no_text"]
Text(content) == [kind |-> "text", content |-> content]

NewLLMCall(kwargs, raw_segments, environment, answer) ==
    [pc |-> "start", args |-> kwargs, segments |-> raw_segments,
     environment |-> environment, answer |-> answer,
     todo |-> <<>>, predictions |-> <<>>, events |-> <<>>, label |-> None]

\* a fallback that goes on counting events after the validated predictions
FallBack_keeping_count ==
    /\ pc' = "running"
    /\ args' = llm.args
    /\ state' = [ParserState(llm.args.match_id, llm.args.period, llm.args.offset_seconds)
                    EXCEPT !.event_counter = Len(llm.predictions)]
    /\ events' = <<>>
    /\ segments' = <<>>
    /\ segment' = <<>>
    /\ pending' = <<>>
    /\ consumed' = <<>>
    /\ UNCHANGED <<calls, peer, scan>>

\* lines 115-121 and 142-148: the rule parser is called on the arguments
FallBack ==
    /\ pc' = "running"
    /\ args' = llm.args
    /\ state' = ParserState(llm.args.match_id, llm.args.period, llm.args.offset_seconds)
    /\ events' = <<>>
    /\ segments' = <<>>
    /\ segment' = <<>>
    /\ pending' = <<>>
    /\ consumed' = <<>>
    /\ UNCHANGED <<calls, peer, scan>>

\* lines 111-113: the configuration check
LLMStart ==
    /\ llm.pc = "start"
    /\ IF \/ ~llm.environment.client
          \/ ~llm.environment.api_key
          \/ ~llm.environment.structure_model
       THEN /\ llm' = [llm EXCEPT !.pc = "fallback"]
            /\ FallBack
       ELSE /\ llm' = [llm EXCEPT !.pc = "requesting"]
            /\ UNCHANGED <<PeerLocals, peer, scan>>

\* what iterating over events_data yields: <<items>>, or <<>> when it is not
\* iterable (TypeError)
Iterate(events_data) ==
    IF events_data.type = "array" THEN <<events_data.items>>
    ELSE IF events_data.type = "str"
    THEN << [i \in 1..Len(events_data.tokens) |-> String(<<events_data.tokens[i]>>)] >>
    ELSE IF events_data.type = "object" /\ DOMAIN events_data.members = {}
    THEN << <<>> >>
    ELSE <<>>

\* _request_predictions up to its loop (159-178): where the call goes next
\* and the items to validate
Requested(answer) ==
    IF answer.kind \in {"error", "no_text"} THEN [pc |-> "fallback", todo |-> <<>>]
    ELSE IF answer.content.type = "invalid" THEN [pc |-> "fallback", todo |-> <<>>]
    ELSE IF answer.content.type # "object" THEN [pc |-> "raised", todo |-> <<>>]
    ELSE IF Iterate(Get(answer.content.members, "events", Array(<<>>))) = <<>>
    THEN [pc |-> "raised", todo |-> <<>>]
    ELSE [pc |-> "validating",
          todo |-> Iterate(Get(answer.content.members, "events", Array(<<>>)))[1]]

LLMRequest ==
    /\ llm.pc = "requesting"
    /\ llm' = [llm EXCEPT !.pc = Requested(llm.answer).pc,
                          !.todo = Requested(llm.answer).todo]
    /\ IF Requested(llm.answer).pc = "fallback" THEN FallBack
       ELSE UNCHANGED <<PeerLocals, peer, scan>>
\* an answer without events is taken for a result: an empty list is built
LLMValidate_accepting_no_events ==
    /\ llm.pc = "validating"
    /\ IF llm.todo = <<>>
       THEN /\ llm' = [llm EXCEPT !.pc = "building"]
            /\ UNCHANGED <<PeerLocals, peer, scan>>
       ELSE IF ValidateItem(Head(llm.todo)) = "ok"
            THEN /\ llm' = [llm EXCEPT
                               !.predictions =
                                   Append(@, LLMEventPrediction(Head(llm.todo).members)),
                               !.todo = Tail(@)]
                 /\ UNCHANGED <<PeerLocals, peer, scan>>
       ELSE IF ValidateItem(Head(llm.todo)) = "ValueError"
            THEN /\ llm' = [llm EXCEPT !.pc = "fallback"]
                 /\ FallBack
       ELSE /\ llm' = [llm EXCEPT !.pc = "raised"]
            /\ UNCHANGED <<PeerLocals, peer, scan>>

\* one iteration of the loop of 180-184, or its end and lines 130-131
LLMValidate ==
    /\ llm.pc = "validating"
    /\ IF llm.todo = <<>>
       THEN IF llm.predictions = <<>>
            THEN /\ llm' = [llm EXCEPT !.pc = "fallback"]
                 /\ FallBack
            ELSE /\ llm' = [llm EXCEPT !.pc = "building"]
                 /\ UNCHANGED <<PeerLocals, peer, scan>>
       ELSE IF ValidateItem(Head(llm.todo)) = "ok"
            THEN /\ llm' = [llm EXCEPT
                               !.predictions =
                                   Append(@, LLMEventPrediction(Head(llm.todo).members)),
                               !.todo = Tail(@)]
                 /\ UNCHANGED <<PeerLocals, peer, scan>>
       ELSE IF ValidateItem(Head(llm.todo)) = "ValueError"
            THEN /\ llm' = [llm EXCEPT !.pc = "fallback"]
                 /\ FallBack
       ELSE /\ llm' = [llm EXCEPT !.pc = "raised"]
            /\ UNCHANGED <<PeerLocals, peer, scan>>

\* lines 132-140
LLMBuild ==
    /\ llm.pc = "building"
    /\ llm' = [llm EXCEPT
                  !.events = _build_events_from_predictions(llm.predictions,
                                                            llm.segments, llm.args),
                  !.label = "llm",
                  !.pc = "returned"]
    /\ UNCHANGED <<PeerLocals, peer, scan>>

\* the rule parser has returned, or has raised: so does the call
LLMFallbackReturn ==
    /\ llm.pc = "fallback"
    /\ pc \in {"returned", "raised"}
    /\ llm' = IF pc = "raised" THEN [llm EXCEPT !.pc = "raised"]
              ELSE [llm EXCEPT !.events = events, !.label = "rule", !.pc = "returned"]
    /\ UNCHANGED <<PeerLocals, peer, scan>>

(***************************************************************************)
(* The calls of llm_parser.parse_transcript_segments that are explored.    *)
(***************************************************************************)
LossAndReaction ==
    << RawSegment(10, FirstTouchText("Blue", "seven", "low", <<"rebound", "to", "opponent">>)),
       RawSegment(17, PostLossText("Blue", "seven", <<"immediate", "press">>,
                                   <<"wins", "it", "back", "herself">>)) >>

LLMSegmentLists == { LossAndReaction, << RawSegment(4, ControlledTouch) >> }

Environments ==
    { [client |-> TRUE, api_key |-> TRUE, structure_model |-> TRUE],
      [client |-> FALSE, api_key |-> TRUE, structure_model |-> TRUE],
      [client |-> TRUE, api_key |-> FALSE, structure_model |-> TRUE],
      [client |-> TRUE, api_key |-> TRUE, structure_model |-> FALSE] }

\* event objects a structurer may answer with
PredictedFirstTouch ==
    Object([segment_index |-> 0, event_type |-> "first_touch", team |-> "Blue",
            player_jersey_number |-> "7",
            source_phrase |-> <<"Blue", "seven", "first", "touch", "low">>,
            first_touch_quality |-> "low", first_touch_result |-> "rebound_opponent"])

PredictedReaction ==
    Object([segment_index |-> 1, event_type |-> "post_loss_reaction", team |-> " Blue ",
            player_jersey_number |-> "7",
            post_loss_behaviour |-> "immediate_press",
            post_loss_outcome |-> "won_back_possession_self",
            post_loss_effort_intensity |-> "high"])

PredictedCarry ==
    Object([segment_index |-> 0, event_type |-> "on_ball_action", team |-> "Blue",
            player_jersey_number |-> "7",
            source_phrase |-> <<"Blue", "seven", "carries">>,
            touch_count_before_action |-> "three_plus",
            on_ball_action_type |-> "carry", carry_flag |-> TRUE,
            pass_intent |-> "other",
            action_outcome_team |-> "same_team",
            action_outcome_detail |-> "completed",
            next_possession_team |-> "same_team"])

PredictedElsewhere ==
    Object([segment_index |-> 7, event_type |-> "first_touch", team |-> "White",
            player_jersey_number |-> "9",
            first_touch_quality |-> "high", first_touch_result |-> "controlled"])

OutsideVocabulary ==
    Object([segment_index |-> 0, event_type |-> "first_touch", team |-> "Blue",
            player_jersey_number |-> "7",
            first_touch_quality |-> "perfect", first_touch_result |-> "controlled"])

UnknownEventType ==
    Object([segment_index |-> 0, event_type |-> "tackle", team |-> "Blue",
            player_jersey_number |-> "7"])

MissingFamilyField ==
    Object([segment_index |-> 0, event_type |-> "first_touch", team |-> "Blue",
            player_jersey_number |-> "7", first_touch_quality |-> "low"])

MissingTeam ==
    Object([segment_index |-> 0, event_type |-> "first_touch",
            player_jersey_number |-> "7",
            first_touch_quality |-> "low", first_touch_result |-> "controlled"])

NegativeIndex ==
    Object([segment_index |-> -1, event_type |-> "first_touch", team |-> "Blue",
            player_jersey_number |-> "7",
            first_touch_quality |-> "low", first_touch_result |-> "controlled"])

Events(items) == Text(Object([events |-> Array(items)]))

\* answers that do not pass validation
InvalidAnswers ==
    { RequestFails, NoText, Text(NotJSON),
      Text(Array(<<>>)), Text(Null),
      Text(Object([status |-> String(<<"ok">>)])),
      Text(Object([events |-> Null])),
      Text(Object([events |-> String(<<>>)])),
      Text(Object([events |-> String(<<"none">>)])),
      Events(<<>>),
      Events(<<Number(1)>>),
      Events(<<PredictedFirstTouch, Number(1)>>),
      Events(<<PredictedFirstTouch, OutsideVocabulary>>),
      Events(<<PredictedFirstTouch, MissingFamilyField>>),
      Events(<<UnknownEventType>>),
      Events(<<MissingTeam>>),
      Events(<<NegativeIndex>>) }

ValidAnswers ==
    { Events(<<PredictedFirstTouch>>),
      Events(<<PredictedFirstTouch, PredictedReaction>>),
      Events(<<PredictedCarry>>),
      Events(<<PredictedElsewhere, PredictedFirstTouch>>) }

Answers == InvalidAnswers \cup ValidAnswers

InitLLM ==
    /\ llm \in { NewLLMCall(kwargs, raw_segments, environment, answer) :
                    kwargs \in AllCallArgs, raw_segments \in LLMSegmentLists,
                    environment \in Environments, answer \in Answers }
    /\ pc = "idle"
    /\ args = llm.args
    /\ state = ParserState(args.match_id, args.period, args.offset_seconds)
    /\ events = <<>>
    /\ segments = <<>>
    /\ segment = <<>>
    /\ pending = <<>>
    /\ consumed = <<>>
    /\ calls = <<>>
    /\ peer = <<>>
    /\ scan = <<>>

NextLLM ==
    \/ LLMStart
    \/ LLMRequest
    \/ LLMValidate
    \/ LLMBuild
    \/ /\ Len(segments) < Len(llm.segments)
       /\ NextSegment(llm.segments[Len(segments) + 1])
    \/ ParseFragment
    \/ /\ Len(segments) = Len(llm.segments)
       /\ Return
    \/ LLMFallbackReturn

SpecLLM == InitLLM /\ [][NextLLM]_vars

\* the structurer is disabled
Disabled ==
    \/ ~llm.environment.client
    \/ ~llm.environment.api_key
    \/ ~llm.environment.structure_model

\* every item of the answer passes validation, and there is at least one
FullyValidated(answer) ==
    /\ answer.kind = "text"
    /\ answer.content.type = "object"
    /\ "events" \in DOMAIN answer.content.members
    /\ answer.content.members.events.type = "array"
    /\ answer.content.members.events.items # <<>>
    /\ \A i \in 1..Len(answer.content.members.events.items) :
          ValidateItem(answer.content.members.events.items[i]) = "ok"

\* C16: the call raises nothing; when the structurer is disabled or
\* unreachable or its answer fails validation the call returns with the label
\* "rule"; the label "llm" comes only with a non-empty list of events built
\* from a fully validated answer.
C16_FailureFallsBackToRule ==
    /\ llm.pc # "raised"
    /\ llm.pc = "returned" /\ (Disabled \/ ~FullyValidated(llm.answer))
          => llm.label = "rule"
    /\ llm.label = "llm"
          => /\ FullyValidated(llm.answer)
             /\ llm.events # <<>>
             /\ Len(llm.events) = Len(llm.answer.content.members.events.items)

\* C17: a call that fell back returns exactly what the rule parser returns
\* for the same segments, match_id, period and offset_seconds.
C17_FallbackIsTheRuleParser ==
    llm.pc = "returned" /\ llm.label = "rule"
        => llm.events = parse_transcript_segments(llm.segments, llm.args)

\* a fallback after one prediction had been validated, which returns events
C17_Witness ==
    /\ llm.pc = "returned"
    /\ llm.label = "rule"
    /\ llm.predictions # <<>>
    /\ llm.events # <<>>
    /\ llm.events[1].event_id = llm.args.match_id \o "-1"

\* the values the rule parser gives the enumerated fields
RuleVocabulary ==
    [first_touch_quality |-> {"high", "medium", "low"},
     first_touch_result |-> {"controlled", "rebound_free_space", "rebound_opponent"},
     touch_count_before_action |-> {"one_touch", "two_touch", "three_plus"},
     on_ball_action_type |-> {"pass", "forward_ball", "service", "clearance", "shot"},
     pass_intent |-> {"safe_recycle", "line_breaking", "switch_of_play",
                      "through_ball", "service_into_box"},
     action_outcome_team |-> {"same_team", "opponent", "out_of_play", "loose"},
     next_possession_team |-> {"same_team", "opponent", "contested"},
     post_loss_behaviour |-> {"immediate_press", "track_runner", "token_pressure",
                              "no_reaction"},
     post_loss_outcome |-> {"won_back_possession_self", "won_back_possession_team",
                            "forced_error_only", "no_effect", "negative_effect"},
     post_loss_effort_intensity |-> {"high", "medium", "low"}]

InRuleVocabulary(e) ==
    /\ e.event_type \in EventTypes
    /\ \A field \in DOMAIN RuleVocabulary :
          e[field] = None \/ e[field] \in RuleVocabulary[field]

\* C18: every event returned with the label "llm" has one of the three event
\* types, and each of its enumerated fields is null or a value the rule
\* parser produces for that field.
C18_LLMEventsInRuleVocabulary ==
    llm.label = "llm" => \A i \in 1..Len(llm.events) : InRuleVocabulary(llm.events[i])

\* the outcome clause of a fragment the on-ball handler matched
OutcomeClauseOf(raw_text) ==
    _extract_intent_and_outcome(
        Strip(ON_BALL_RE(_normalize_phrase(raw_text))[1].tail, {WS})).outcome_clause

HasOutcome(e, team, detail, next) ==
    /\ e.action_outcome_team = team
    /\ e.action_outcome_detail = detail
    /\ e.next_possession_team = next

SaysCompleted(words) ==
    \/ words = <<"completed">>
    \/ Len(words) >= 3 /\ words[1] = "completed" /\ words[2] = "to"
    \/ Len(words) >= 3 /\ words[1] = "to" /\ words[Len(words)] = "completed"

SaysToOpponent(words) ==
    \/ words = <<"intercepted">>
    \/ words = <<"intercepted", "by", "opponent">>
    \/ words = <<"to", "opponent">>

\* the table of the outcome triples, read top to bottom
OutcomeAsTabulated(words, e) ==
    IF SaysCompleted(words) THEN HasOutcome(e, "same_team", "completed", "same_team")
    ELSE IF SaysToOpponent(words) THEN HasOutcome(e, "opponent", "intercepted", "opponent")
    ELSE IF words = <<"out", "for", "throw">>
    THEN e.action_outcome_team = "out_of_play" /\ e.next_possession_team = "same_team"
    ELSE IF words \in {<<"out", "for", "goal", "kick">>, <<"out", "for", "corner">>}
    THEN e.action_outcome_team = "out_of_play" /\ e.next_possession_team = "opponent"
    ELSE IF words = <<"blocked">>
    THEN HasOutcome(e, "loose",
                    IF e.on_ball_action_type = "shot" THEN "shot_blocked" ELSE "blocked",
                    "contested")
    ELSE IF Contains(words, <<"on", "target">>)
    THEN HasOutcome(e, "opponent", "shot_on_target", "opponent")
    ELSE IF Contains(words, <<"off", "target">>)
    THEN HasOutcome(e, "out_of_play", "shot_off_target", "opponent")
    ELSE HasOutcome(e, "loose", "blocked", "contested")

\* C19: the outcome clause of every on-ball event is classified as the table
\* says: completed, intercepted or to opponent, out for a restart (next
\* possession by the restart), blocked (detail by the action), on target, off
\* target, and loose/blocked/contested for any other clause.
C19_OutcomeTriple ==
    \A k \in 1..Len(consumed) :
        consumed[k].event # <<>> /\ IsOnBall(consumed[k].event[1])
            => OutcomeAsTabulated(DropFinalPeriod(OutcomeClauseOf(consumed[k].raw_text)),
                                  consumed[k].event[1])

\* a clearance out for a corner has been parsed
C19_Witness ==
    /\ events # <<>>
    /\ IsOnBall(events[1])
    /\ OutcomeClauseOf(consumed[1].raw_text) = <<"out", "for", "corner">>
    /\ HasOutcome(events[1], "out_of_play", "clearance_out", "opponent")

\* the possession a first-touch result stands for
ResultMeans(first_touch_result) ==
    CASE first_touch_result = "controlled" -> "same_player"
      [] first_touch_result = "rebound_free_space" -> "loose"
      [] first_touch_result = "rebound_opponent" -> "opponent"
      [] OTHER -> None

\* C20: in every first_touch event possession_after_touch is the one its
\* first_touch_result stands for (controlled: same_player, rebound_free_space:
\* loose, rebound_opponent: opponent), and maintained_possession_bool is true
\* exactly when the result is controlled.
C20_ResultDeterminesPossession ==
    \A i \in 1..Len(events) :
        IsFirstTouch(events[i])
            => /\ events[i].possession_after_touch = ResultMeans(events[i].first_touch_result)
               /\ events[i].maintained_possession_bool
                      = (events[i].first_touch_result = "controlled")

\* a controlled touch and a rebound to the opponent have both been parsed
C20_Witness ==
    \E i, j \in 1..Len(events) :
        /\ IsFirstTouch(events[i])
        /\ events[i].first_touch_result = "controlled"
        /\ events[i].maintained_possession_bool
        /\ IsFirstTouch(events[j])
        /\ events[j].first_touch_result = "rebound_opponent"
        /\ events[j].possession_after_touch = "opponent"
        /\ ~events[j].maintained_possession_bool

\* what a narrated behaviour phrase stands for
BehaviourMeans(phrase) ==
    CASE phrase = <<"immediate", "press">> -> "immediate_press"
      [] phrase = <<"track", "runner">> -> "track_runner"
      [] phrase = <<"token", "pressure">> -> "token_pressure"
      [] phrase = <<"stops", "and", "watches">> -> "no_reaction"
      [] phrase = <<"gives", "up">> -> "no_reaction"
      [] OTHER -> None

IntensityMeans(behaviour) ==
    CASE behaviour \in {"immediate_press", "track_runner"} -> "high"
      [] behaviour = "token_pressure" -> "medium"
      [] behaviour = "no_reaction" -> "low"
      [] OTHER -> None

\* the groups POST_LOSS_RE finds in a fragment the post-loss handler matched
ReactionOf(raw_text) == POST_LOSS_RE(_normalize_phrase(raw_text))[1]

BehaviourAsTabulated(narrated, e) ==
    /\ e.post_loss_behaviour = BehaviourMeans(narrated.behaviour)
    /\ e.post_loss_effort_intensity = IntensityMeans(e.post_loss_behaviour)

\* C21: in every post_loss_reaction event the behaviour is the one its phrase
\* stands for ("stops and watches" and "gives up" both no_reaction), and the
\* effort intensity follows from the behaviour alone: high for
\* immediate_press and track_runner, medium for token_pressure, low for
\* no_reaction.
C21_BehaviourAndIntensity ==
    \A k \in 1..Len(consumed) :
        consumed[k].event # <<>> /\ IsPostLoss(consumed[k].event[1])
            => BehaviourAsTabulated(ReactionOf(consumed[k].raw_text), consumed[k].event[1])

\* a reaction narrated as token pressure has been parsed
C21_Witness ==
    /\ events # <<>>
    /\ IsPostLoss(events[1])
    /\ ReactionOf(consumed[1].raw_text).behaviour = <<"token", "pressure">>
    /\ events[1].post_loss_behaviour = "token_pressure"
    /\ events[1].post_loss_effort_intensity = "medium"

\* what an outcome clause stands for, by the phrase it begins with
OutcomeMeans(clause) ==
    CASE IsPrefix(<<"wins", "it", "back", "herself">>, clause) -> "won_back_possession_self"
      [] IsPrefix(<<"wins", "it", "back", "for", "the", "team">>, clause)
            -> "won_back_possession_team"
      [] IsPrefix(<<"forces", "error">>, clause) -> "forced_error_only"
      [] IsPrefix(<<"no", "effect">>, clause) -> "no_effect"
      [] IsPrefix(<<"negative", "effect">>, clause) -> "negative_effect"
      [] OTHER -> "no_effect"

PostLossOutcomes ==
    {"won_back_possession_self", "won_back_possession_team", "forced_error_only",
     "no_effect", "negative_effect"}

PostLossOutcomeAsTabulated(narrated, e) ==
    /\ narrated.outcome_clause # <<>>
    /\ e.post_loss_outcome = OutcomeMeans(narrated.outcome_clause)
    /\ e.post_loss_outcome \in PostLossOutcomes

\* C22: in every post_loss_reaction event the outcome is the one the leading
\* phrase of its outcome clause stands for, no_effect when the clause begins
\* with none of the five phrases, and always one of the five values.
C22_PostLossOutcomeByLeadingPhrase ==
    \A k \in 1..Len(consumed) :
        consumed[k].event # <<>> /\ IsPostLoss(consumed[k].event[1])
            => PostLossOutcomeAsTabulated(ReactionOf(consumed[k].raw_text),
                                          consumed[k].event[1])

\* a clause that goes on after its leading phrase has been classified
C22_Witness ==
    /\ events # <<>>
    /\ IsPostLoss(events[1])
    /\ ReactionOf(consumed[1].raw_text).outcome_clause
           = <<"negative", "effect", "on", "shape">>
    /\ events[1].post_loss_outcome = "negative_effect"

\* the fields every event must carry a value in
HasIdentity(e) ==
    /\ e.team # None
    /\ e.player_jersey_number # None
    /\ e.event_type # None
    /\ e.event_type \in EventTypes
    /\ e.source_phrase \in Seq(STRING)
    /\ e.video_time_s \in Int

\* C23: every event of the rule parser has a team, a jersey number, an event
\* type, a source phrase and a video time that are not null, and its event
\* type is first_touch, on_ball_action or post_loss_reaction.
C23_IdentityFieldsNotNull ==
    \A i \in 1..Len(events) : HasIdentity(events[i])

\* an event of a player named by a word that is not a spoken number
C23_Witness ==
    /\ events # <<>>
    /\ events[1].player_jersey_number = "smith"
    /\ events[1].team = "White"
    /\ events[1].source_phrase # <<>>

\* the events of the fragments tried so far are timed by the segment dicts
\* raws they come from
TimedBySegment(raws) ==
    /\ \A k \in 1..Len(consumed) :
          consumed[k].event # <<>> =>
              consumed[k].event[1].video_time_s
                  = raws[k].start.number + args.offset_seconds
    /\ \A k, l \in 1..Len(consumed) :
          (consumed[k].event # <<>> /\ consumed[l].event # <<>> /\ raws[k] = raws[l])
              => consumed[k].event[1].video_time_s = consumed[l].event[1].video_time_s

\* C24: the video_time_s of every event is the start of the segment its
\* fragment came from plus the offset_seconds of the call, so the events of
\* one segment have the same time and the offset is added to every event.
C24_VideoTimeIsStartPlusOffset == TimedBySegment(RawOfFragments(segments))

\* two events of one segment in a call with a non-zero offset
C24_Witness ==
    /\ args.offset_seconds = 5
    /\ Len(events) = 2
    /\ Len(segments) = 1
    /\ segments[1].start.number = 10
    /\ events[1].video_time_s = 15
    /\ events[2].video_time_s = 15

\* C25: a fragment whose normalized text begins with "first half", "second
\* half" or "mark" gives no event and leaves the tracker state as it was,
\* whatever follows the prefix.
C25_MarkerFragmentIsDiscarded ==
    \A k \in 1..Len(consumed) :
        IsMarker(consumed[k].raw_text)
            => /\ consumed[k].event = <<>>
               /\ After(k) = consumed[k].before

\* a marker followed by the narration of a first touch was tried while a
\* possession was open
C25_Witness ==
    \E k \in 1..Len(consumed) :
        /\ IsMarker(consumed[k].raw_text)
        /\ Contains(consumed[k].raw_text, <<"first", "touch">>)
        /\ consumed[k].before.possession_open
        /\ consumed[k].before.event_counter = 1
        /\ After(k) = consumed[k].before

\* the sentence with its touch count spelled with hyphens
Hyphenated(raw_text) ==
    ReplaceAll(ReplaceAll(ReplaceAll(raw_text, <<"three", "plus", "touch">>,
                                     <<"three-plus-touch">>),
                          <<"one", "touch">>, <<"one-touch">>),
               <<"two", "touch">>, <<"two-touch">>)

TouchCountMeans(raw_text) ==
    IF Contains(raw_text, <<"three", "plus", "touch">>) THEN "three_plus"
    ELSE IF Contains(raw_text, <<"one", "touch">>) THEN "one_touch"
    ELSE "two_touch"

\* the two parses agree but for the phrase they were read from
SameButSourcePhrase(spelled, hyphenated) ==
    /\ hyphenated # <<>>
    /\ spelled # <<>>
    /\ [spelled[1] EXCEPT !.source_phrase = <<>>]
           = [hyphenated[1] EXCEPT !.source_phrase = <<>>]

\* what C26 says of the k-th fragment
SpelledAsHyphenated(k, hyphenated) ==
    /\ SameButSourcePhrase(consumed[k].event, hyphenated.event)
    /\ IsOnBall(consumed[k].event[1])
    /\ consumed[k].event[1].touch_count_before_action
           = TouchCountMeans(consumed[k].raw_text)
    /\ After(k) = hyphenated.state

\* C26: an on-ball sentence whose touch count is spelled without a hyphen
\* ("one touch", "two touch", "three plus touch") gives the event the same
\* sentence gives with the hyphenated spelling, source_phrase apart, with
\* touch_count_before_action one_touch, two_touch or three_plus.
C26_SpelledTouchCountAsHyphenated ==
    \A k \in 1..Len(consumed) :
        ( /\ Hyphenated(consumed[k].raw_text) # consumed[k].raw_text
          /\ ON_BALL_RE(_normalize_phrase(Hyphenated(consumed[k].raw_text))) # <<>> )
            => SpelledAsHyphenated(k, ParseFragmentText(consumed[k].before,
                                                        consumed[k].segment,
                                                        Hyphenated(consumed[k].raw_text)))

\* a pass narrated with "three plus touch" has been parsed
C26_Witness ==
    /\ events # <<>>
    /\ Contains(consumed[1].raw_text, <<"three", "plus", "touch">>)
    /\ events[1].touch_count_before_action = "three_plus"
    /\ events[1].pass_intent = "safe_recycle"
    /\ events[1].action_outcome_detail = "completed"

\* the text of the segment dict is empty or whitespace only
BlankSegment(data) ==
    /\ ~ToSegmentRaises(data)
    /\ Strip(_to_segment(data).text, {WS}) = <<>>

\* a blank segment has just been taken from the sequence: nothing is left to
\* parse, and the tracker and the events are as they were
BlankSegmentStep ==
    (segments' # segments /\ BlankSegment(Last(segments')))
        => /\ pending' = <<>>
           /\ state' = state
           /\ events' = events
           /\ pc' = pc

NoFragmentOfBlank ==
    /\ \A i \in 1..Len(segments) :
          BlankSegment(segments[i]) => SegmentFragments(_to_segment(segments[i])) = <<>>
    /\ \A k \in 1..Len(consumed) : Strip(consumed[k].segment.text, {WS}) # <<>>
    /\ segments = <<>> => events = <<>> /\ pc # "raised"

\* C27: a segment whose text is empty or whitespace only gives no fragment,
\* no event and no change of the tracker, and a call with no segments
\* returns no events and does not raise.
C27_BlankGivesNothing == [](NoFragmentOfBlank) /\ [][BlankSegmentStep]_vars

\* a whitespace-only segment was taken while a possession was open, and the
\* call returned the one event narrated before it
C27_Witness ==
    /\ pc = "returned"
    /\ Len(segments) = 2
    /\ segments[2] = RawSegment(22, <<WS>>)
    /\ Len(events) = 1
    /\ state.possession_open
    /\ state.event_counter = 1

\* the phrases C28 names as continuations
ContinuationPhrases ==
    { <<"through", "ball">>, <<"completed", "to">>, <<"intercepted">>,
      <<"wins", "it", "back">>,
      <<"safe", "recycle">>, <<"line", "breaking">>, <<"switch", "of", "play">>,
      <<"service", "into", "box">>,
      <<"immediate", "press">>, <<"track", "runner">>, <<"token", "pressure">>,
      <<"stops", "and", "watches">>, <<"gives", "up">>,
      <<"forces", "error">>, <<"no", "effect">>, <<"negative", "effect">>,
      <<"on", "target">>, <<"off", "target">>, <<"blocked">>, <<"out", "for">> }

BeginsWithContinuation(text) ==
    \E phrase \in ContinuationPhrases : IsPrefix(phrase, LowerText(text))

\* no fragment after the first begins with a continuation phrase
NoContinuationAlone(fragments) ==
    \A j \in 2..Len(fragments) : ~BeginsWithContinuation(fragments[j].raw_text)

\* C28 as stated: of the sentences a segment is split into, one after the
\* first that begins with a continuation phrase (the pass intents, the
\* post-loss behaviours and outcomes, "through ball", "completed to",
\* "intercepted", "wins it back", "on target", "off target", "blocked", "out
\* for") is appended to the fragment before it and is never a fragment of
\* its own.
C28_ContinuationIsAppended ==
    \A i \in 1..Len(segments) :
        ~ToSegmentRaises(segments[i])
            => NoContinuationAlone(SegmentFragments(_to_segment(segments[i])))

\* the sentences a segment text is split into before any is joined
Sentences(text) == SplitSentences(Strip(text, {WS}), <<>>)

\* a text of two sentences, the second a continuation, gives one fragment:
\* the first sentence ending in one period, then the second
JoinedWithOnePeriod(text, sentences) ==
    (Len(sentences) = 2 /\ StartsWithAny(LowerText(sentences[2]), connectors))
        => _split_segment_text(text)
               = << RStrip(sentences[1], {"."}) \o <<".">> \o sentences[2] >>

\* C29 as stated: when a continuation is appended to the fragment before
\* it, the joined fragment, and so the source_phrase of its event, is that
\* fragment ending in exactly one period followed by the continuation.
C29_JoinKeepsOnePeriod ==
    \A i \in 1..Len(segments) :
        ~ToSegmentRaises(segments[i])
            => JoinedWithOnePeriod(_to_segment(segments[i]).text,
                                   Sentences(_to_segment(segments[i]).text))

\* one step of the call, as C30 sees the last loss
LastLossStep ==
    /\ state.last_loss_event_id # None => state'.last_loss_event_id # None
    /\ (events' # events /\ IsPostLoss(Last(events')))
          => /\ state'.last_loss_event_id = state.last_loss_event_id
             /\ Last(events').trigger_event_id = state.last_loss_event_id
    /\ state'.last_loss_event_id # state.last_loss_event_id
          => /\ events' # events
             /\ state'.last_loss_event_id = Last(events').event_id

\* reactions with no event between them that set a new loss carry the same
\* trigger
ReactionsShareTrigger ==
    \A i, j \in 1..Len(events) :
        ( /\ i < j
          /\ IsPostLoss(events[i])
          /\ IsPostLoss(events[j])
          /\ \A l \in (i + 1)..(j - 1) : ~IsLoss(events[l]) )
            => events[i].trigger_event_id = events[j].trigger_event_id

\* C30: once last_loss_event_id is set it is never None again in the call; a
\* post-loss reaction reads it and leaves it as it is; it changes only to the
\* id of a new event; so reactions in a row, with other events or unmatched
\* fragments between them, carry the same trigger_event_id until a new loss
\* comes.
C30_LastLossIsKept == [](ReactionsShareTrigger) /\ [][LastLossStep]_vars

\* two reactions to one loss, the second after the first
C30_Witness ==
    \E i, j \in 1..Len(events) :
        /\ i < j
        /\ IsPostLoss(events[i])
        /\ IsPostLoss(events[j])
        /\ events[i].trigger_event_id # None
        /\ events[i].trigger_event_id = events[j].trigger_event_id
        /\ state.last_loss_event_id = events[j].trigger_event_id

(***************************************************************************)
(* One call over a narration in which possessions are opened, continued,   *)
(* closed and reacted to by both teams.                                    *)
(***************************************************************************)
MaxPossessionSegments == 3

PossessionSegments ==
    { RawSegment(10, FirstTouchText(team, "seven", "high", <<"controlled">>)) :
        team \in TeamNames }
    \cup
    { RawSegment(11, FirstTouchText("Blue", "seven", "low", result)) :
        result \in {<<"rebound", "to", "opponent">>, <<"rebound", "free", "space">>} }
    \cup
    { RawSegment(13, OnBallText("Blue", "seven", <<"two-touch">>, <<"pass">>, tail)) :
        tail \in {<<"completed">>, <<"intercepted">>} }
    \cup
    { RawSegment(14, OnBallText("White", "9", <<"one-touch">>, action, tail)) :
        action \in {<<"shot">>}, tail \in {<<"out", "for", "throw">>, <<"blocked">>} }
    \cup
    { RawSegment(17, PostLossText("Blue", "seven", <<"immediate", "press">>,
                                  <<"wins", "it", "back", "herself">>)),
      RawSegment(20, <<"Great", "play", "there", ".">>) }

NextPossession ==
    \/ /\ Len(segments) < MaxPossessionSegments
       /\ \E raw_segment \in PossessionSegments : NextSegment(raw_segment)
    \/ ParseFragment
    \/ Return

SpecPossession == Init /\ [][NextPossession]_vars

\* the possession fields of the tracker
PossessionFields(st) ==
    <<st.possession_open, st.possession_owner_team, st.current_possession_id>>

IsClosed(st) == ~st.possession_open /\ st.possession_owner_team = None

\* what event e did to the tracker, which was before and is after
TrackerAfterEvent(before, after, e) ==
    /\ IsClosing(e) => IsClosed(after)
    /\ (IsFirstTouch(e) /\ ~IsClosing(e))
          => /\ e.first_touch_result = "controlled"
             /\ after.possession_open
             /\ after.possession_owner_team = e.team
    /\ (IsOnBall(e) /\ ~IsClosing(e))
          => /\ e.action_outcome_team = "same_team"
             /\ PossessionFields(after) = PossessionFields(before)
    /\ IsPostLoss(e) => PossessionFields(after) = PossessionFields(before)
    /\ after.last_loss_event_id =
          IF IsLoss(e) THEN e.event_id ELSE before.last_loss_event_id

\* C31: after an event that takes the ball out of the team's control (a
\* first touch whose possession_after_touch is not same_player, an on-ball
\* action whose outcome team is opponent, out_of_play or loose) possession_open
\* is false and the owner is None; a controlled first touch leaves the
\* possession open for its team, an on-ball action completed to the same team
\* and a reaction leave the possession fields as they were; the event becomes
\* the last loss exactly when it is a rebound to the opponent or an on-ball
\* action to the opponent or out of play.
C31_ClosedAfterLosingControl ==
    \A k \in 1..Len(consumed) :
        consumed[k].event # <<>>
            => TrackerAfterEvent(consumed[k].before, After(k), consumed[k].event[1])

\* a blocked shot closes the open possession and is not the last loss, which
\* an earlier event stays
C31_Witness ==
    \E k \in 1..Len(consumed) :
        /\ consumed[k].event # <<>>
        /\ IsOnBall(consumed[k].event[1])
        /\ consumed[k].event[1].action_outcome_team = "loose"
        /\ consumed[k].before.possession_open
        /\ IsClosed(After(k))
        /\ consumed[k].before.last_loss_event_id # None
        /\ After(k).last_loss_event_id = consumed[k].before.last_loss_event_id

\* the tail narrated after the action word starts with a known intent phrase
NarratesIntent(raw_text) ==
    /\ ON_BALL_RE(Narrated(raw_text)) # <<>>
    /\ IntentEntry(NarratedTail(raw_text), 1) # <<>>

\* the event carries an intent
HasIntent(e) == "pass_intent" \in DOMAIN e /\ e.pass_intent # None

\* C32: an event of the rule parser has a non-null pass_intent only when it
\* is an on_ball_action whose action type is pass, forward_ball or service;
\* the on_ball_action of a clearance or a shot has pass_intent None, also when
\* the tail narrated after the action word starts with a known intent phrase.
C32_IntentOnlyOnPassingActions ==
    \A k \in 1..Len(consumed) :
        consumed[k].event # <<>>
            => /\ HasIntent(consumed[k].event[1])
                    => /\ IsOnBall(consumed[k].event[1])
                       /\ consumed[k].event[1].on_ball_action_type
                              \in {"pass", "forward_ball", "service"}
               /\ ( /\ IsOnBall(consumed[k].event[1])
                    /\ consumed[k].event[1].on_ball_action_type \in {"clearance", "shot"} )
                    => consumed[k].event[1].pass_intent = None

\* a shot narrated with "service into box" has no intent, and the event of a
\* pass narrated with an intent phrase has one
C32_Witness ==
    \E k \in 1..Len(consumed) :
        /\ consumed[k].event # <<>>
        /\ IsOnBall(consumed[k].event[1])
        /\ consumed[k].event[1].on_ball_action_type = "shot"
        /\ NarratesIntent(consumed[k].raw_text)
        /\ consumed[k].event[1].pass_intent = None
        /\ consumed[k].event[1].action_outcome_detail = "shot_on_target"

\* the player token of a fragment that matches a pattern
PlayerToken(normalized) ==
    IF FIRST_TOUCH_RE(normalized) # <<>> THEN FIRST_TOUCH_RE(normalized)[1].player
    ELSE IF ON_BALL_RE(normalized) # <<>> THEN ON_BALL_RE(normalized)[1].player
    ELSE POST_LOSS_RE(normalized)[1].player

\* the digits of the number a spoken word stands for, the token itself when
\* it is no number word from zero to twenty
PlayerMeans(token) ==
    IF \E i \in 1..Len(SpokenNumbers) : SpokenNumbers[i] = token
    THEN ToString((CHOOSE i \in 1..Len(SpokenNumbers) : SpokenNumbers[i] = token) - 1)
    ELSE token

\* C33: the player of an event is the digit string of the player token when
\* the token is a number word from zero to twenty ("seven" gives "7",
\* "twenty" gives "20") and the token itself otherwise (digits, names);
\* normalizing the player of an event again gives the same player.
C33_PlayerTokenNormalized ==
    \A k \in 1..Len(consumed) :
        consumed[k].event # <<>>
            => /\ consumed[k].event[1].player_jersey_number =
                     PlayerMeans(PlayerToken(_normalize_phrase(consumed[k].raw_text)))
               /\ _normalize_player(consumed[k].event[1].player_jersey_number) =
                     consumed[k].event[1].player_jersey_number

\* player twenty, narrated as a word, is player "20"
C33_Witness ==
    \E k \in 1..Len(consumed) :
        /\ consumed[k].event # <<>>
        /\ PlayerToken(_normalize_phrase(consumed[k].raw_text)) = "twenty"
        /\ consumed[k].event[1].player_jersey_number = "20"

\* a tracker whose possession fields agree with one another
PossessionFieldsAgree(st) ==
    /\ st.possession_open <=> st.possession_owner_team # None
    /\ st.possession_open => st.current_possession_id >= 1
    /\ st.possession_owner_team \in TeamNames \cup {None}

\* C34: in every tracker state the call goes through, possession_open is
\* true exactly when possession_owner_team is not None, and an open
\* possession has a current_possession_id of at least 1.
C34_OpenIffOwned ==
    /\ PossessionFieldsAgree(state)
    /\ \A k \in 1..Len(consumed) : PossessionFieldsAgree(consumed[k].before)

\* the second possession is open and owned, after the first was closed
C34_Witness ==
    /\ state.possession_open
    /\ state.possession_owner_team = "White"
    /\ state.current_possession_id = 2
    /\ \E k \in 1..Len(consumed) :
          /\ IsClosed(consumed[k].before)
          /\ consumed[k].before.current_possession_id = 1

\* the possession linkage of an event of the rule parser
LinkedAsItsFamily(e) ==
    /\ e.sequence_id = e.possession_id
    /\ IsFirstTouch(e)
          => \E n \in 1..Len(events) : e.possession_id = ToString(n)
    /\ IsPostLoss(e) => e.possession_id = None /\ e.sequence_id = None

\* C35: in every event of the rule parser sequence_id equals possession_id;
\* a first_touch event has a possession_id that is not None, also when its
\* result is a rebound that closes the possession in the same step; a
\* post_loss_reaction event has possession_id and sequence_id None.
C35_SequenceMirrorsPossession ==
    \A i \in 1..Len(events) : LinkedAsItsFamily(events[i])

\* a rebound to the opponent carries the possession it opened and closed, and
\* the reaction to it and a pass outside any possession carry none
C35_Witness ==
    \E k \in 1..Len(consumed) :
        /\ consumed[k].event # <<>>
        /\ IsFirstTouch(consumed[k].event[1])
        /\ consumed[k].event[1].first_touch_result = "rebound_opponent"
        /\ consumed[k].event[1].possession_id = "1"
        /\ consumed[k].event[1].sequence_id = "1"
        /\ IsClosed(After(k))
        /\ \E i \in 1..Len(events) :
              IsOnBall(events[i]) /\ events[i].sequence_id = None
        /\ \E i \in 1..Len(events) :
              IsPostLoss(events[i]) /\ events[i].possession_id = None

\* the k-th fragment is an on-ball action, by a team that does not own the
\* possession open before it, whose outcome takes the ball out of control
ClosesAnothersPossession(k) ==
    /\ consumed[k].event # <<>>
    /\ IsOnBall(consumed[k].event[1])
    /\ IsClosing(consumed[k].event[1])
    /\ consumed[k].before.possession_open
    /\ consumed[k].before.possession_owner_team # consumed[k].event[1].team

\* the j-th fragment is the first first touch after the k-th
NextFirstTouch(k, j) ==
    /\ k < j
    /\ consumed[j].event # <<>>
    /\ IsFirstTouch(consumed[j].event[1])
    /\ \A l \in (k + 1)..(j - 1) :
          consumed[l].event = <<>> \/ ~IsFirstTouch(consumed[l].event[1])

\* what the k-th fragment, an action on another team's possession, does
ClosedByTheOtherTeam(k) ==
    /\ IsClosed(After(k))
    /\ consumed[k].event[1].possession_id = None
    /\ consumed[k].event[1].action_outcome_team \in {"opponent", "out_of_play"}
          => After(k).last_loss_event_id = consumed[k].event[1].event_id
    /\ consumed[k].event[1].action_outcome_team = "loose"
          => After(k).last_loss_event_id = consumed[k].before.last_loss_event_id
    /\ \A j \in 1..Len(consumed) :
          NextFirstTouch(k, j)
              => consumed[j].event[1].possession_id =
                    ToString(consumed[k].before.current_possession_id + 1)

\* C36: an on-ball action by a team that does not own the open possession,
\* with outcome team opponent, out_of_play or loose, closes that possession
\* and, for opponent and out_of_play, becomes the last loss; the next first
\* touch, by the owning team too, is given a new possession_id.
C36_OtherTeamClosesPossession ==
    \A k \in 1..Len(consumed) :
        ClosesAnothersPossession(k) => ClosedByTheOtherTeam(k)

\* Blue's possession is closed by a White shot out of play, which becomes the
\* last loss, and Blue's next first touch opens possession 2 although no
\* event of Blue lost the ball
C36_Witness ==
    \E k, j \in 1..Len(consumed) :
        /\ ClosesAnothersPossession(k)
        /\ NextFirstTouch(k, j)
        /\ consumed[k].before.possession_owner_team = "Blue"
        /\ consumed[k].before.current_possession_id = 1
        /\ consumed[k].event[1].team = "White"
        /\ After(k).last_loss_event_id = consumed[k].event[1].event_id
        /\ consumed[j].event[1].team = "Blue"
        /\ consumed[j].event[1].possession_id = "2"
        /\ \A i \in 1..Len(events) : events[i].team = "Blue" => ~IsClosing(events[i])

\* the words of a fragment up to the commas and stops that end it
Words(raw_text) == RStrip(Narrated(raw_text), {","})

\* an on-ball fragment that ends with the action word
EndsWithAction(raw_text) ==
    /\ Len(Words(raw_text)) >= 4
    /\ Words(raw_text)[1] \in TeamWords
    /\ Words(raw_text)[3] \in DOMAIN TouchTokens
    /\ \E i \in 1..Len(ActionPhrases) : Drop(Words(raw_text), 3) = ActionPhrases[i]

\* a post-loss fragment that ends with the behaviour phrase
EndsWithBehaviour(raw_text) ==
    /\ IsPrefix(<<"after", "losing", "it">>, Words(raw_text))
    /\ Len(SkipComma(Drop(Words(raw_text), 3))) >= 3
    /\ SkipComma(Drop(Words(raw_text), 3))[1] \in TeamWords
    /\ \E i \in 1..Len(BehaviourPhrases) :
          Drop(SkipComma(Drop(Words(raw_text), 3)), 2) = BehaviourPhrases[i]

\* C37: an on-ball fragment with nothing after the action word, and a
\* post-loss fragment with nothing after the behaviour phrase, match no
\* pattern: the fragment gives no event, draws no event id and leaves the
\* tracker as it was.
C37_EmptyClauseMatchesNothing ==
    \A k \in 1..Len(consumed) :
        (EndsWithAction(consumed[k].raw_text) \/ EndsWithBehaviour(consumed[k].raw_text))
            => /\ Matching(consumed[k].raw_text) = {}
               /\ consumed[k].event = <<>>
               /\ After(k) = consumed[k].before

\* amid an open possession a pass and a reaction with nothing said after
\* them are passed over, and the pass narrated next is event 2 of possession 1
C37_Witness ==
    \E j, k \in 1..Len(consumed) :
        /\ EndsWithAction(consumed[j].raw_text)
        /\ EndsWithBehaviour(consumed[k].raw_text)
        /\ consumed[j].before.possession_open
        /\ consumed[j].before.event_counter = 1
        /\ After(k) = consumed[j].before
        /\ Len(events) = 2
        /\ events[2].event_id = args.match_id \o "-2"
        /\ events[2].possession_id = "1"

(***************************************************************************)
(* One call over segments that end or begin in the middle of a narrated    *)
(* event.                                                                  *)
(***************************************************************************)
MaxBoundarySegments == 2

BoundarySegments ==
    { \* an action without its outcome, and outcomes and reactions without
      \* what they belong to
      RawSegment(13, <<"Blue", "seven", "two-touch", "pass", ".">>),
      RawSegment(15, <<"Intercepted", ".">>),
      RawSegment(15, <<"Completed", "to", "nine", ".">>),
      RawSegment(15, <<"No", "effect", ".", "Wins", "it", "back", "herself", ".">>),
      RawSegment(17, <<"After", "losing", "it", ",", "Blue", "seven", ".">>),
      RawSegment(19, <<"Token", "pressure", ",", "no", "effect", ".">>),
      \* the same narrated inside one segment
      RawSegment(13, <<"Blue", "seven", "two-touch", "pass", ".", "Intercepted", ".">>),
      \* an outcome before a whole event
      RawSegment(21, <<"Out", "for", "throw", ".", "Blue", "seven", "first", "touch",
                       "high", ",", "controlled", ".">>),
      RawSegment(22, <<WS>>) }

NextBoundary ==
    \/ /\ Len(segments) < MaxBoundarySegments
       /\ \E raw_segment \in BoundarySegments : NextSegment(raw_segment)
    \/ ParseFragment
    \/ Return

SpecBoundary == Init /\ [][NextBoundary]_vars

\* the words of a text, its stops and surplus whitespace left out
NoStops(text) == SelectSeq(text, LAMBDA t : t \notin Terminators \cup {WS})

\* the words of the fragments of a list, one after the other
RECURSIVE WordsOfAll(_)
WordsOfAll(fragments) ==
    IF fragments = <<>> THEN <<>>
    ELSE NoStops(Head(fragments)) \o WordsOfAll(Tail(fragments))

\* every fragment tried was taken from the text of the segment it was tried
\* for, and its event, if it gave one, bears its text
FragmentsStayInSegment ==
    \A k \in 1..Len(consumed) :
        /\ Contains(NoStops(consumed[k].segment.text), NoStops(consumed[k].raw_text))
        /\ consumed[k].event # <<>>
              => consumed[k].event[1].source_phrase = consumed[k].raw_text

\* a segment that says something has just been taken: its first sentence
\* begins the first of the fragments to try, the fragments hold the words of
\* the segment and no others, and what was tried before is as it was
SegmentBoundaryStep ==
    ( /\ segments' # segments
      /\ ~ToSegmentRaises(Last(segments'))
      /\ ~BlankSegment(Last(segments')) )
        => /\ pending' # <<>>
           /\ IsPrefix(NoStops(Sentences(_to_segment(Last(segments')).text)[1]),
                       NoStops(Head(pending')))
           /\ WordsOfAll(pending') = NoStops(_to_segment(Last(segments')).text)
           /\ consumed' = consumed
           /\ events' = events
           /\ state' = state

\* C38: continuation joining never crosses a segment boundary: the first
\* sentence of a segment starts a new fragment, also when it begins with a
\* continuation phrase, and no fragment holds words of a segment other than
\* its own.
C38_JoiningStaysInsideSegment ==
    [](FragmentsStayInSegment) /\ [][SegmentBoundaryStep]_vars

\* "Blue seven two-touch pass." and then, in the next segment,
\* "Intercepted.": two fragments, tried apart, and no event
C38_Witness ==
    /\ Len(segments) = 2
    /\ Len(consumed) = 2
    /\ pending = <<>>
    /\ EndsWithAction(consumed[1].raw_text)
    /\ StartsWithAny(LowerText(consumed[2].raw_text), connectors)
    /\ consumed[2].raw_text = _to_segment(segments[2]).text
    /\ consumed[1].segment # consumed[2].segment
    /\ events = <<>>

\* the answer is a JSON object whose events are an empty list, or which has
\* no events at all
HoldsZeroEvents(answer) ==
    /\ answer.kind = "text"
    /\ answer.content.type = "object"
    /\ Get(answer.content.members, "events", Array(<<>>)) = Array(<<>>)

\* C39: when the structurer is asked and answers with an object that holds
\* zero events, the call never builds events from it: it returns the events
\* of the rule parser for the same arguments with the label "rule"; a list
\* returned with the label "llm" has at least one event.
C39_NoEventsIsAFailure ==
    /\ (~Disabled /\ HoldsZeroEvents(llm.answer))
          => /\ llm.pc \in {"start", "requesting", "validating", "fallback", "returned"}
             /\ llm.predictions = <<>>
             /\ llm.pc = "returned"
                   => /\ llm.label = "rule"
                      /\ llm.events = parse_transcript_segments(llm.segments, llm.args)
    /\ llm.label = "llm" => Len(llm.events) >= 1

\* the structurer answered {"events": []} and the call returned the two
\* events of the rule parser
C39_Witness ==
    /\ ~Disabled
    /\ llm.answer = Events(<<>>)
    /\ llm.pc = "returned"
    /\ llm.label = "rule"
    /\ Len(llm.events) = 2
    /\ llm.events = events

(***************************************************************************)
(* json_utils._extract_top_level_object.  A text is a sequence of          *)
(* characters; scan holds the text and the locals of the call: idx counts  *)
(* the characters the loop has taken, start_idx is <<>> for None.          *)
(***************************************************************************)
MaxTextLen == 5

\* an opening brace, a closing brace, any other character
Characters == {"{", "}", "a"}

Texts == UNION { [1..n -> Characters] : n \in 0..MaxTextLen }

NewScan(text) ==
    [pc |-> "loop", text |-> text, idx |-> 0, depth |-> 0, start_idx |-> <<>>,
     result |-> <<>>]

\* every closing brace is counted, whatever the depth
ExtractChar_counting_every_brace(sc, char) ==
    IF char = "{"
    THEN [sc EXCEPT !.start_idx = IF sc.depth = 0 THEN <<sc.idx>> ELSE @,
                    !.depth = @ + 1,
                    !.idx = @ + 1]
    ELSE IF char = "}"
    THEN IF sc.depth - 1 = 0 /\ sc.start_idx # <<>>
         THEN [sc EXCEPT !.depth = @ - 1,
                         !.result = <<SubSeq(sc.text, sc.start_idx[1] + 1, sc.idx + 1)>>,
                         !.pc = "returned"]
         ELSE [sc EXCEPT !.depth = @ - 1, !.idx = @ + 1]
    ELSE [sc EXCEPT !.idx = @ + 1]

\* lines 43-53: the body of the loop for the character at index sc.idx
ExtractChar(sc, char) ==
    IF char = "{"
    THEN [sc EXCEPT !.start_idx = IF sc.depth = 0 THEN <<sc.idx>> ELSE @,
                    !.depth = @ + 1,
                    !.idx = @ + 1]
    ELSE IF char = "}"
    THEN IF sc.depth = 0
         THEN [sc EXCEPT !.idx = @ + 1]
         ELSE IF sc.depth - 1 = 0 /\ sc.start_idx # <<>>
         THEN [sc EXCEPT !.depth = @ - 1,
                         !.result = <<SubSeq(sc.text, sc.start_idx[1] + 1, sc.idx + 1)>>,
                         !.pc = "returned"]
         ELSE [sc EXCEPT !.depth = @ - 1, !.idx = @ + 1]
    ELSE [sc EXCEPT !.idx = @ + 1]

ScanLocals == <<pc, args, segments, segment, pending, consumed, state, events, calls>>

\* one iteration of the loop of line 43
ExtractStep ==
    /\ scan.pc = "loop"
    /\ scan.idx < Len(scan.text)
    /\ scan' = ExtractChar(scan, scan.text[scan.idx + 1])
    /\ UNCHANGED <<ScanLocals, peer, llm>>

\* line 54: the loop has taken every character
ExtractNone ==
    /\ scan.pc = "loop"
    /\ scan.idx = Len(scan.text)
    /\ scan' = [scan EXCEPT !.pc = "returned", !.result = <<>>]
    /\ UNCHANGED <<ScanLocals, peer, llm>>

InitExtract ==
    /\ scan \in { NewScan(text) : text \in Texts }
    /\ pc = "idle"
    /\ args \in CallArgs
    /\ state = ParserState(args.match_id, args.period, args.offset_seconds)
    /\ events = <<>>
    /\ segments = <<>>
    /\ segment = <<>>
    /\ pending = <<>>
    /\ consumed = <<>>
    /\ calls = <<>>
    /\ peer = <<>>
    /\ llm = <<>>

NextExtract ==
    \/ ExtractStep
    \/ ExtractNone

SpecExtract == InitExtract /\ [][NextExtract]_vars

\* how many of the characters text[i..j] are char
CountOf(text, i, j, char) == Cardinality({ k \in i..j : text[k] = char })

\* the braces of text[i..j] are as many closing as opening
Balanced(text, i, j) == CountOf(text, i, j, "{") = CountOf(text, i, j, "}")

\* the positions of the opening braces of the text
Openings(text) == { i \in 1..Len(text) : text[i] = "{" }

\* the positions after i where the braces opened from i on are all closed
Closings(text, i) == { j \in (i + 1)..Len(text) : text[j] = "}" /\ Balanced(text, i, j) }

Min(S) == CHOOSE x \in S : \A y \in S : x <= y

\* the text from its first opening brace to the closing brace that brings
\* the depth back to 0, as <<substring>>; <<>> when there is none
TopLevelObject(text) ==
    IF Openings(text) = {} THEN <<>>
    ELSE IF Closings(text, Min(Openings(text))) = {} THEN <<>>
    ELSE << SubSeq(text, Min(Openings(text)),
                   Min(Closings(text, Min(Openings(text))))) >>

\* no opening brace of the text has a closing brace after it
NothingClosed(text) ==
    \A i \in Openings(text) : \A j \in (i + 1)..Len(text) : text[j] # "}"

\* the depth the loop is at after idx characters: the braces it has counted
DepthAfter(text, idx) ==
    IF Openings(text) = {} \/ idx < Min(Openings(text)) THEN 0
    ELSE CountOf(text, Min(Openings(text)), idx, "{")
            - CountOf(text, Min(Openings(text)), idx, "}")

\* C40: _extract_top_level_object returns the text from the first "{" met
\* at depth 0 up to and including the "}" that brings the depth back to 0; a
\* "}" met at depth 0 is passed over; the result is None when no "{" is ever
\* closed; the depth is never negative.
C40_ExtractsFirstTopLevelObject ==
    /\ scan.depth >= 0
    /\ scan.pc = "loop" => scan.depth = DepthAfter(scan.text, scan.idx)
    /\ scan.pc = "returned"
          => /\ scan.result = TopLevelObject(scan.text)
             /\ NothingClosed(scan.text) => scan.result = <<>>

\* "}{{}}": the closing brace at depth 0 is passed over and the object that
\* follows is returned whole
C40_Witness ==
    /\ scan.pc = "returned"
    /\ scan.text = <<"}", "{", "{", "}", "}">>
    /\ scan.result = << <<"{", "{", "}", "}">> >>
    /\ scan.depth = 0

====
